---- MODULE Spec2Model ----
(***************************************************************************)
(* Model of the deepdive calibration node (ros/src/deepdive_calibration.cc).*)
(*                                                                         *)
(* The node is a single-threaded ROS event loop (ros::spin): every         *)
(* callback runs to completion before the next one is dispatched, so each  *)
(* callback is one action.  The state is the node's globals.  SpecSteps    *)
(* runs TriggerCallback statement by statement, to show what the other     *)
(* callbacks can and cannot do while it runs; SpecMain runs main() on the  *)
(* parameters it is started with.                                          *)
(*                                                                         *)
(* Units.  Angles are kept in units of 1/57.2958 rad, so that the code's   *)
(* test  angle > thresh_angle_ / 57.2958  reads  angle > thresh_angle_;    *)
(* durations are kept in units of 1e-6 s, so that                          *)
(* duration < thresh_duration_ / 1e6  reads  duration < thresh_duration_.  *)
(* Time is counted in clock ticks of one second: ros::Time::now() returns  *)
(* the current tick, and two callbacks dispatched within the same tick     *)
(* read the same stamp.                                                    *)
(***************************************************************************)
EXTENDS Integers, Sequences, FiniteSets, TLC

VARIABLES
  offline_,       \* bool offline_
  recording_,     \* bool recording_
  measurements_,  \* MeasurementMap measurements_ : ros::Time -> Light
  trackers_,      \* TrackerMap trackers_       : serial -> [ready, vTt]
  lighthouses_,   \* LighthouseMap lighthouses_ : serial -> [ready, vTl]
  timer_,         \* ros::Timer timer_ : [started, remaining]
  now,            \* ros::Time::now(), in ticks
  pc,             \* where the node's thread is: in main, in ros::spin
                  \* between two callbacks, or at a step of TriggerCallback
  last,           \* history: what the last dispatched callback did
  cost,           \* one evaluation of TransformCost: arguments and residual
  pending,        \* the observation a run of the erase loop is given
  ootx,           \* tracker->ootx[] : lighthouse id -> OOTX context
  lighthouses,    \* driver->lighthouses[] : slot -> [serial, ..., timestamp]
  wire,           \* the bits still to be fed to ootx_feed, with lh and tc
  fed,            \* history: what the last call of ootx_feed did
  pkt,            \* history: what the last call of decode_packet did
  lcd,            \* tracker->lcd : the sweep buffer and the sync state
  lig             \* history: what the last pulse did

\* The state of the calibration node.
nodevars == <<offline_, recording_, measurements_, trackers_, lighthouses_,
              timer_, now, pc, last>>
\* The state of the OOTX decoder.
ootxvars == <<ootx, lighthouses, wire, fed, pkt>>
\* The state of the code that runs outside the node's callbacks.
libvars == <<cost, pending, ootx, lighthouses, wire, fed, pkt, lcd, lig>>

vars == <<offline_, recording_, measurements_, trackers_, lighthouses_,
          timer_, now, pc, last, cost, pending, ootx, lighthouses, wire, fed,
          pkt, lcd, lig>>

----------------------------------------------------------------------------
(* Bounds of the model *)

\* The clock stops at MaxTime ticks.
MaxTime == 1

----------------------------------------------------------------------------
(* Program constants *)

\* int thresh_count_ = 4
thresh_count_ == 4
\* double thresh_angle_ = 60.0
thresh_angle_ == 60
\* double thresh_duration_ = 1.0
thresh_duration_ == 1
\* nh.createTimer(ros::Duration(1.0), TimerCallback, true, false)
TimerPeriod == 1
\* double res_, read from the "resolution" parameter (in ticks)
res_ == 8
\* if (transform.size() != 7): a pose is 3 translation + 4 quaternion values
TransformLen == 7
\* NUM_SENSORS of deepdive.hh: the sensor loop of Solve runs over
\* 0..NUM_SENSORS-1.  Six ids cover every sensor that reports in Lights and
\* one that never reports.
NUM_SENSORS == 6

----------------------------------------------------------------------------
(* Rosters and inputs *)

\* Serials configured at startup (main, "trackers" and "lighthouses" lists).
\* Lighthouse serials are numbered in the order std::map<std::string, ...>
\* iterates them, so the first lighthouse (the master) is the least serial.
\* Tracker T9 and lighthouse 9 appear in messages but are in no roster.
TrackerSerials == {"T1"}
LighthouseSerials == {1, 2}

\* A 6-parameter transform: 3 translation + 3 axis-angle components.
Zero6 == <<0, 0, 0, 0, 0, 0>>
\* Transforms that the startup configuration may hold for the master.
MasterLoaded == {Zero6, <<1, 2, 0, 0, 0, 3>>}
\* Transform that the startup configuration holds for a slave.
SlaveLoaded == {<<1, 0, 0, 0, 0, 0>>}
\* Values the nonlinear solver may write into a free parameter block.
SolvedTransforms == {<<2, 0, 0, 0, 0, 1>>}

\* deepdive_ros::Pulse
Pulse(s, a, d) == [sensor |-> s, angle |-> a, duration |-> d]

\* Pulse lists of incoming observations.
\*   P_ok    : 4 pulses well inside both thresholds
\*   P_edge  : 4 pulses, one with angle and duration exactly at the thresholds
\*   P_over  : 4 pulses, one with angle just over the threshold
\*   P_short : 5 pulses, one with duration just under the threshold
\*   P_few   : 3 pulses
P_ok == <<Pulse(0, 10, 2), Pulse(1, 10, 2), Pulse(2, 10, 2), Pulse(3, 10, 2)>>
P_edge == <<Pulse(0, 10, 2), Pulse(1, thresh_angle_, thresh_duration_),
            Pulse(2, 10, 2), Pulse(3, 10, 2)>>
P_over == <<Pulse(0, 10, 2), Pulse(1, 10, 2), Pulse(2, thresh_angle_ + 1, 2),
            Pulse(3, 10, 2)>>
P_short == <<Pulse(0, 10, 2), Pulse(1, 10, thresh_duration_ - 1),
             Pulse(2, 10, 2), Pulse(3, 10, 2), Pulse(4, 10, 2)>>
P_few == <<Pulse(0, 10, 2), Pulse(1, 10, 2), Pulse(2, 10, 2)>>
PulseLists == {P_ok, P_edge, P_over, P_short, P_few}

\* deepdive_ros::Light
Light(t, l, a, p) == [frame_id |-> t, lighthouse |-> l, axis |-> a, pulses |-> p]

\* The observations the external bus may deliver.
Lights ==
  {Light("T1", l, a, P_ok) : l \in LighthouseSerials, a \in {0, 1}}
  \cup {Light("T1", 1, 0, p) : p \in PulseLists}
  \cup {Light("T9", 1, 0, P_ok), Light("T1", 9, 0, P_ok)}

----------------------------------------------------------------------------
(* Ingestion filter: the erase loop of LightCallback *)

\* Variant: the angle test rejects a pulse at the threshold (>= for >).
Reject_inclusive(p) == p.angle >= thresh_angle_ \/ p.duration < thresh_duration_

\* The rejection test of one pulse.
Reject(p) == p.angle > thresh_angle_ \/ p.duration < thresh_duration_

\* Variant: erase(it, end()), which removes the pulse and all that follow.
Erase_toEnd(pulses, i) == [k \in 1..(i - 1) |-> pulses[k]]

\* data.pulses.erase(it), for the 1-based position i
Erase(pulses, i) == [k \in 1..(Len(pulses) - 1) |->
                       IF k < i THEN pulses[k] ELSE pulses[k + 1]]

\* while (it-- > data.pulses.begin()) { if (reject) it = erase(it); }
\* `it` is the iterator's offset from begin() before the loop test: the test
\* compares it with begin() and then decrements it; erase returns the
\* iterator at the same offset.
RECURSIVE EraseLoop(_, _)
EraseLoop(pulses, it) ==
  IF ~(it > 0) THEN pulses
  ELSE LET i == it - 1 IN
       IF Reject(pulses[i + 1])
       THEN EraseLoop(Erase(pulses, i + 1), i)
       ELSE EraseLoop(pulses, i)

\* The pulses that survive the loop, which starts at data.pulses.end().
Filter(pulses) == EraseLoop(pulses, Len(pulses))

\* Variant: the lighthouse's ready flag is not tested.
NotAccepting_noLighthouseReady(rec, trs, lhs, msg) ==
  \/ ~rec
  \/ msg.frame_id \notin DOMAIN trs
  \/ msg.lighthouse \notin DOMAIN lhs
  \/ ~trs[msg.frame_id].ready

\* The readiness test of LightCallback: true when the callback returns early.
NotAccepting(rec, trs, lhs, msg) ==
  \/ ~rec
  \/ msg.frame_id \notin DOMAIN trs
  \/ msg.lighthouse \notin DOMAIN lhs
  \/ ~trs[msg.frame_id].ready
  \/ ~lhs[msg.lighthouse].ready

\* An empty std::map (measurements_ at startup and after clear()).
EmptyMap == <<>>

\* measurements_[ros::Time::now()].light = data
Store(meas, t, data) ==
  [k \in DOMAIN meas \cup {t} |-> IF k = t THEN data ELSE meas[k]]

\* Variant: the callback does not test recording_.
LightStore_anyState(rec, trs, lhs, meas, t, msg) ==
  IF NotAccepting(TRUE, trs, lhs, msg) THEN meas
  ELSE LET data == [msg EXCEPT !.pulses = Filter(msg.pulses)] IN
       IF Len(data.pulses) < thresh_count_ THEN meas
       ELSE Store(meas, t, data)

\* The measurement store after LightCallback(msg) at time t.
LightStore(rec, trs, lhs, meas, t, msg) ==
  IF NotAccepting(rec, trs, lhs, msg) THEN meas
  ELSE LET data == [msg EXCEPT !.pulses = Filter(msg.pulses)] IN
       IF Len(data.pulses) < thresh_count_ THEN meas
       ELSE Store(meas, t, data)
----------------------------------------------------------------------------
(* Solve: bundling, pose bootstrapping, global solve *)

\* ros::Time(round(t / res_) * res_): round() rounds halves away from zero.
Bin(t) == ((2 * t + res_) \div (2 * res_)) * res_

\* The first key of a std::map, in iteration order.
First(S) == CHOOSE x \in S : \A y \in S : x <= y

\* The angles that the pulse loop pushes for sensor s, in pulse order.
RECURSIVE Angles(_, _)
Angles(pulses, s) ==
  IF pulses = <<>> THEN <<>>
  ELSE (IF Head(pulses).sensor = s THEN <<Head(pulses).angle>> ELSE <<>>)
       \o Angles(Tail(pulses), s)

\* bundle[tr][lh][b][s][a] after the bundling loop has walked the
\* measurements with the stamps `times` in map order.
RECURSIVE Samples(_, _, _, _, _, _, _)
Samples(meas, times, tr, lh, b, s, a) ==
  IF times = {} THEN <<>>
  ELSE LET t == First(times)
           m == meas[t]
       IN (IF m.frame_id = tr /\ m.lighthouse = lh /\ Bin(t) = b /\ m.axis = a
           THEN Angles(m.pulses, s) ELSE <<>>)
          \o Samples(meas, times \ {t}, tr, lh, b, s, a)

RECURSIVE Sum(_)
Sum(v) == IF v = <<>> THEN 0 ELSE Head(v) + Sum(Tail(v))

\* bool Mean(v, d): the return value, and d as the fraction num / den.
Mean(v) ==
  IF v = <<>> THEN [ok |-> FALSE, num |-> 0, den |-> 1]
  ELSE [ok |-> TRUE, num |-> Sum(v), den |-> Len(v)]

\* The time epochs of bundle[tr][lh]: the bins some pulse was pushed into.
Epochs(meas, tr, lh) ==
  {Bin(t) : t \in {u \in DOMAIN meas : /\ meas[u].frame_id = tr
                                        /\ meas[u].lighthouse = lh
                                        /\ meas[u].pulses # <<>>}}

\* The keys (tracker, lighthouse, epoch, sensor, axis) of the entries that
\* the bundling loop creates: bundle[..][..][t][pt->sensor][a].push_back.
BundledKeys(meas) ==
  UNION {{<<meas[t].frame_id, meas[t].lighthouse, Bin(t),
            meas[t].pulses[i].sensor, meas[t].axis>>
           : i \in DOMAIN meas[t].pulses} : t \in DOMAIN meas}

\* Variant: a pulse overwrites the entry (assignment for push_back), so an
\* entry holds the last sample only.
Bundled_lastOnly(meas) ==
  [k \in BundledKeys(meas) |->
     LET v == Samples(meas, DOMAIN meas, k[1], k[2], k[3], k[4], k[5])
     IN <<v[Len(v)]>>]

\* The bundle when the bundling loop has ended: the entries it created, each
\* with the samples pushed into it.
Bundled(meas) ==
  [k \in BundledKeys(meas) |->
     Samples(meas, DOMAIN meas, k[1], k[2], k[3], k[4], k[5])]

\* std::map::operator[] on the innermost map: the entry under k, which is
\* inserted as an empty vector when the bundle has no entry there.
Lookup(bdl, k) == IF k \in DOMAIN bdl THEN bdl[k] ELSE <<>>

\* The keys that the sensor loop of the bootstrapper touches with
\* operator[]: bundle[tt][lt][bt][s][0] for every sensor, and
\* bundle[tt][lt][bt][s][1] when the first Mean returned true (the || is
\* short-circuit).
LookupKeys(meas, bdl, trs, lhs) ==
  UNION {UNION {UNION {UNION {
    {<<tr, lh, b, s, 0>>}
      \cup (IF Mean(Lookup(bdl, <<tr, lh, b, s, 0>>)).ok
            THEN {<<tr, lh, b, s, 1>>} ELSE {})
    : s \in 0..(NUM_SENSORS - 1)} : b \in Epochs(meas, tr, lh)}
    : tr \in DOMAIN trs} : lh \in DOMAIN lhs}

\* The bundle when Solve returns: the entries of the bundling loop and the
\* entries that the lookups of the bootstrapper have inserted.
Bundle(meas, trs, lhs) ==
  LET bdl == Bundled(meas) IN
  [k \in DOMAIN bdl \cup LookupKeys(meas, bdl, trs, lhs) |-> Lookup(bdl, k)]

\* The sensors for which obj/img get a point: both axis means exist.
Correspondences(meas, tr, lh, b) ==
  {s \in 0..(NUM_SENSORS - 1) :
     /\ Mean(Samples(meas, DOMAIN meas, tr, lh, b, s, 0)).ok
     /\ Mean(Samples(meas, DOMAIN meas, tr, lh, b, s, 1)).ok}

\* Variant: three correspondences are enough to call solvePnP.
PnPCandidates_three(meas, trs, lhs) ==
  {c \in UNION {UNION {{<<tr, b, lh>> : b \in Epochs(meas, tr, lh)}
                       : tr \in DOMAIN trs} : lh \in DOMAIN lhs} :
     Cardinality(Correspondences(meas, c[1], c[3], c[2])) > 2}

\* The (tracker, epoch, lighthouse) triples for which solvePnP is called.
PnPCandidates(meas, trs, lhs) ==
  {c \in UNION {UNION {{<<tr, b, lh>> : b \in Epochs(meas, tr, lh)}
                       : tr \in DOMAIN trs} : lh \in DOMAIN lhs} :
     Cardinality(Correspondences(meas, c[1], c[3], c[2])) > 3}

\* The keys of poses[tr][b][lh]; pnp holds the triples on which cv::solvePnP
\* returns true.
EpochPoses(meas, trs, lhs, pnp) == PnPCandidates(meas, trs, lhs) \cap pnp

\* lighthouses_.begin(): the master.
Master(lhs) == First(DOMAIN lhs)

\* The master special case of the residual loop:
\*   for (i = 0; i < 6; i++) lt->second.vTl[0] = 0;
ZeroMaster(lhs) ==
  IF DOMAIN lhs = {} THEN lhs
  ELSE [lhs EXCEPT ![Master(lhs)].vTl[1] = 0]

\* Variant: a block is added whenever the slave has a pose, whether or not
\* the master has one.
EpochBlocks_slaveOnly(poses, lm, lt, tt, epochs) ==
  LET RECURSIVE Walk(_)
      Walk(es) ==
        IF es = {} THEN <<>>
        ELSE LET b == First(es) IN
             (IF <<tt, b, lt>> \notin poses THEN <<>> ELSE <<<<lt, tt, b>>>>)
             \o Walk(es \ {b})
  IN Walk(epochs)

\* The loop over pt = poses[tt].begin() .. end(): the AddResidualBlock calls
\* for slave lt and tracker tt, as (slave, tracker, epoch), in loop order.
EpochBlocks(poses, lm, lt, tt, epochs) ==
  LET RECURSIVE Walk(_)
      Walk(es) ==
        IF es = {} THEN <<>>
        ELSE LET b == First(es) IN
             (IF <<tt, b, lt>> \notin poses \/ <<tt, b, lm>> \notin poses
              THEN <<>> ELSE <<<<lt, tt, b>>>>)
             \o Walk(es \ {b})
  IN Walk(epochs)

\* The loop over tt = trackers_.begin() .. end() for slave lt.
RECURSIVE TrackerBlocks(_, _, _, _)
TrackerBlocks(poses, lm, lt, tts) ==
  IF tts = {} THEN <<>>
  ELSE LET tt == CHOOSE x \in tts : TRUE IN
       EpochBlocks(poses, lm, lt, tt, {p[2] : p \in {q \in poses : q[1] = tt}})
       \o TrackerBlocks(poses, lm, lt, tts \ {tt})

\* The loop over lt = lighthouses_.begin() .. end(): the master is skipped
\* (continue), every other lighthouse is a slave.
RECURSIVE LighthouseBlocks(_, _, _, _)
LighthouseBlocks(poses, lm, lts, trs) ==
  IF lts = {} THEN <<>>
  ELSE LET lt == First(lts) IN
       (IF lt = lm THEN <<>> ELSE TrackerBlocks(poses, lm, lt, DOMAIN trs))
       \o LighthouseBlocks(poses, lm, lts \ {lt}, trs)

\* The residual blocks added to the problem: the list of AddResidualBlock
\* calls, each as (slave, tracker, epoch).
ResidualBlocks(poses, trs, lhs) ==
  IF DOMAIN lhs = {} THEN <<>>
  ELSE LighthouseBlocks(poses, Master(lhs), DOMAIN lhs, trs)

\* ceres::Solve(options_, &problem, &summary).  Only the vTl of a slave that
\* has a residual block is a parameter block of the problem.  When the
\* summary is usable the solver has written its result into these blocks;
\* when it is not (termination FAILURE) it leaves them as they were.
CeresSolve(lhs, blocks, usable, solved) ==
  IF usable
  THEN [l \in DOMAIN lhs |->
          IF \E i \in DOMAIN blocks : blocks[i][1] = l
          THEN [lhs[l] EXCEPT !.vTl = solved] ELSE lhs[l]]
  ELSE lhs

\* What one run of Solve has built: the bundle, the keys of poses and the
\* residual blocks.  NoPipe: Solve has not built anything.
NoPipe == [bundle |-> <<>>, poses |-> {}, blocks |-> <<>>]

\* Variant: the emptiness check is missing, Solve always runs the pipeline.
Solve_noEmptyCheck(meas, trs, lhs, pnp, usable, solved) ==
  LET trs1 == [t \in DOMAIN trs |-> [trs[t] EXCEPT !.vTt = <<>>]]
      poses == EpochPoses(meas, trs, lhs, pnp)
      lhs1 == ZeroMaster(lhs)
      blocks == ResidualBlocks(poses, trs1, lhs1)
      lhs2 == CeresSolve(lhs1, blocks, usable, solved)
  IN [ret |-> TRUE, trackers |-> trs1, lighthouses |-> lhs2,
      processed |-> Cardinality(DOMAIN meas),
      solver |-> IF usable THEN "usable" ELSE "unusable",
      trace |-> <<"vTt.clear", "ceres::Solve", "SendTransforms",
                  "WriteConfig">>,
      pipe |-> [bundle |-> Bundle(meas, trs, lhs), poses |-> poses,
                blocks |-> blocks]]

\* bool Solve().  pnp, usable and solved are the answers of cv::solvePnP and
\* of ceres.  The result holds the return value, the rosters as Solve leaves
\* them, and a record of what Solve did: how many measurements it processed,
\* the solver's verdict, and the calls it made (trace).
Solve(meas, trs, lhs, pnp, usable, solved) ==
  IF DOMAIN meas = {}
  THEN [ret |-> FALSE, trackers |-> trs, lighthouses |-> lhs,
        processed |-> 0, solver |-> "notrun", trace |-> <<>>,
        pipe |-> NoPipe]
  ELSE LET trs1 == [t \in DOMAIN trs |-> [trs[t] EXCEPT !.vTt = <<>>]]
           poses == EpochPoses(meas, trs, lhs, pnp)
           lhs1 == ZeroMaster(lhs)
           blocks == ResidualBlocks(poses, trs1, lhs1)
           lhs2 == CeresSolve(lhs1, blocks, usable, solved)
       IN [ret |-> TRUE, trackers |-> trs1, lighthouses |-> lhs2,
           processed |-> Cardinality(DOMAIN meas),
           solver |-> IF usable THEN "usable" ELSE "unusable",
           trace |-> <<"vTt.clear", "ceres::Solve", "SendTransforms",
                       "WriteConfig">>,
           pipe |-> [bundle |-> Bundle(meas, trs, lhs), poses |-> poses,
                     blocks |-> blocks]]
----------------------------------------------------------------------------
(* The trigger service *)

\* A default-constructed std_srvs::Trigger::Response.
NoResponse == [success |-> FALSE, message |-> ""]

\* Variant: the state is toggled only when the response reports success.
Toggle_onSuccess(rec, res) == IF res.success THEN ~rec ELSE rec

\* recording_ = !recording_
Toggle(rec, res) == ~rec

\* Variant: measurements_.clear() runs before Solve.
StopRecording_clearFirst(meas, trs, lhs, pnp, usable, solved) ==
  LET s == Solve(EmptyMap, trs, lhs, pnp, usable, solved) IN
  [res |-> [success |-> s.ret,
            message |-> IF s.ret THEN "Recording stopped. Solution found."
                        ELSE "Recording stopped. Solution not found."],
   measurements |-> EmptyMap,
   trackers |-> s.trackers, lighthouses |-> s.lighthouses,
   solves |-> 1, ret |-> s.ret, processed |-> s.processed,
   solver |-> s.solver, pipe |-> s.pipe,
   trace |-> <<"measurements_.clear", "Solve">> \o s.trace]

\* The `if (recording_)` block of TriggerCallback: Solve, then the response,
\* then measurements_.clear().
StopRecording(meas, trs, lhs, pnp, usable, solved) ==
  LET s == Solve(meas, trs, lhs, pnp, usable, solved) IN
  [res |-> [success |-> s.ret,
            message |-> IF s.ret THEN "Recording stopped. Solution found."
                        ELSE "Recording stopped. Solution not found."],
   measurements |-> EmptyMap,
   trackers |-> s.trackers, lighthouses |-> s.lighthouses,
   solves |-> 1, ret |-> s.ret, processed |-> s.processed,
   solver |-> s.solver, pipe |-> s.pipe,
   trace |-> <<"Solve">> \o s.trace \o <<"measurements_.clear">>]

\* Variant: starting a recording also solves what is in the store.
StartRecording_solves(meas, trs, lhs) ==
  LET s == Solve(meas, trs, lhs, {}, TRUE, Zero6) IN
  [res |-> [success |-> TRUE, message |-> "Recording started."],
   measurements |-> meas, trackers |-> s.trackers,
   lighthouses |-> s.lighthouses,
   solves |-> 1, ret |-> s.ret, processed |-> s.processed,
   solver |-> s.solver, pipe |-> s.pipe,
   trace |-> <<"Solve">> \o s.trace]

\* The `if (!recording_)` block of TriggerCallback.
StartRecording(meas, trs, lhs) ==
  [res |-> [success |-> TRUE, message |-> "Recording started."],
   measurements |-> meas, trackers |-> trs, lighthouses |-> lhs,
   solves |-> 0, ret |-> FALSE, processed |-> 0, solver |-> "notrun",
   pipe |-> NoPipe, trace |-> <<>>]

\* bool TriggerCallback(req, res): the node's state and the response after
\* the call, with the record of what the call did.
TriggerCallback(rec, meas, trs, lhs, pnp, usable, solved) ==
  LET b == IF ~rec THEN StartRecording(meas, trs, lhs)
           ELSE StopRecording(meas, trs, lhs, pnp, usable, solved)
  IN [b EXCEPT !.trace = b.trace \o <<"toggle">>]
       @@ [recording |-> Toggle(rec, b.res)]

----------------------------------------------------------------------------
(* deepdive_data_light.c: the OOTX decoder *)

\* The constants of deepdive_data_light.h.
PREAMBLE_LENGTH == 17
MAX_PACKET_LEN == 64
MAX_NUM_LIGHTHOUSES == 2

\* 2^k, for k in 0..15
Pow2(k) ==
  <<1, 2, 4, 8, 16, 32, 64, 128, 256, 512, 1024, 2048, 4096, 8192, 16384,
    32768>>[k + 1]

\* Bit k of the unsigned 16-bit value v.
BitOf(v, k) == (v \div Pow2(k)) % 2

\* v |= (bit << k) on a value of up to 16 bits
OrBit(v, k, bit) == IF bit = 1 /\ BitOf(v, k) = 0 THEN v + Pow2(k) ELSE v

\* Bit k of a ^ b, in its place.
XorBit(a, b, k) == ((BitOf(a, k) + BitOf(b, k)) % 2) * Pow2(k)

\* a ^ b on 16-bit values
Xor(a, b) ==
  XorBit(a, b, 0) + XorBit(a, b, 1) + XorBit(a, b, 2) + XorBit(a, b, 3)
    + XorBit(a, b, 4) + XorBit(a, b, 5) + XorBit(a, b, 6) + XorBit(a, b, 7)
    + XorBit(a, b, 8) + XorBit(a, b, 9) + XorBit(a, b, 10) + XorBit(a, b, 11)
    + XorBit(a, b, 12) + XorBit(a, b, 13) + XorBit(a, b, 14)
    + XorBit(a, b, 15)

\* A 32-bit unsigned value is the pair <<high, low>> of its 16-bit halves.
U32(hi, lo) == <<hi, lo>>

\* v |= (bit << k) on a 32-bit value
OrBit32(v, k, bit) ==
  IF k >= 16 THEN U32(OrBit(v[1], k - 16, bit), v[2])
  ELSE U32(v[1], OrBit(v[2], k, bit))

\* The CRC-32 register c (zlib: reflected polynomial 0xEDB88320) after k
\* shifts.
RECURSIVE CrcShift(_, _)
CrcShift(c, k) ==
  IF k = 0 THEN c
  ELSE IF c[2] % 2 = 1
  THEN CrcShift(U32(Xor(c[1] \div 2, 60856),
                    Xor(c[2] \div 2 + (c[1] % 2) * 32768, 33568)), k - 1)
  ELSE CrcShift(U32(c[1] \div 2, c[2] \div 2 + (c[1] % 2) * 32768), k - 1)

\* The CRC-32 register after the bytes data[from], ..., data[len - 1].
RECURSIVE CrcBytes(_, _, _, _)
CrcBytes(c, data, from, len) ==
  IF from >= len \/ c[1] < 0 THEN c
  ELSE CrcBytes(CrcShift(U32(c[1], Xor(c[2], data[from])), 8), data,
                from + 1, len)

\* zlib's crc32(crc, buf, len); crc32(0, NULL, 0) is 0.
crc32(crc, data, len) ==
  LET r == CrcBytes(U32(65535 - crc[1], 65535 - crc[2]), data, 0, len) IN
  U32(65535 - r[1], 65535 - r[2])

\* static uint16_t swaps(uint16_t val)
swaps(val) == (val % 256) * 256 + ((val \div 256) % 256)

\* static uint32_t swapl(uint32_t val)
swapl(val) == U32(swaps(val[2]), swaps(val[1]))

\* sprintf(serial, "%u", n): the decimal digits of n, most significant first.
RECURSIVE Decimal(_)
Decimal(n) == IF n < 10 THEN <<n>> ELSE Decimal(n \div 10) \o <<n % 10>>

\* *(uint32_t*)(data + 0x02) on a little-endian host, for serial numbers
\* below 2^31
SerialOf(data) ==
  data[2] + data[3] * 256 + data[4] * 65536 + data[5] * 16777216

\* A zero-filled struct Lighthouse: the empty serial, timestamp 0.
NoLighthouse == [serial |-> <<>>, fw_version |-> 0, timestamp |-> 0]

\* driver->lighthouses[] before any packet.
NoLighthouses == [idx \in 0..(MAX_NUM_LIGHTHOUSES - 1) |-> NoLighthouse]

\* The search loop of decode_packet from slot idx on: the pair of the slot
\* where the loop stops (MAX_NUM_LIGHTHOUSES when no serial matches) and
\* the first slot seen with timestamp 0.
RECURSIVE Search(_, _, _, _)
Search(lhs, serial, idx, available) ==
  IF ~(idx < MAX_NUM_LIGHTHOUSES) THEN <<idx, available>>
  ELSE LET a == IF lhs[idx].timestamp = 0 /\ available = MAX_NUM_LIGHTHOUSES
                THEN idx ELSE available
       IN IF lhs[idx].serial = serial THEN <<idx, a>>
          ELSE Search(lhs, serial, idx + 1, a)

\* Variant: a free slot is taken before a slot with the packet's serial.
Slot_freeFirst(lhs, serial) ==
  LET f == Search(lhs, serial, 0, MAX_NUM_LIGHTHOUSES) IN
  IF f[2] < MAX_NUM_LIGHTHOUSES THEN f[2] ELSE f[1]

\* The slot decode_packet writes to; MAX_NUM_LIGHTHOUSES when the packet is
\* disregarded.
Slot(lhs, serial) ==
  LET f == Search(lhs, serial, 0, MAX_NUM_LIGHTHOUSES) IN
  IF f[1] >= MAX_NUM_LIGHTHOUSES THEN f[2] ELSE f[1]

\* No call of decode_packet.
NoPacket ==
  [called |-> FALSE, id |-> 0, serial |-> <<>>, tc |-> 0,
   idx |-> MAX_NUM_LIGHTHOUSES, callback |-> FALSE]

\* static void decode_packet(tracker, id, data, tc): the lighthouse slots,
\* the slot tracker->ootx[id].lighthouse refers to (ref), and the record of
\* the call.
decode_packet(lhs, ref, id, data, tc) ==
  LET serial == Decimal(SerialOf(data))
      idx == Slot(lhs, serial)
  IN IF idx >= MAX_NUM_LIGHTHOUSES
     THEN [lighthouses |-> lhs, ref |-> ref,
           pkt |-> [called |-> TRUE, id |-> id, serial |-> serial, tc |-> tc,
                    idx |-> idx, callback |-> FALSE]]
     ELSE [lighthouses |->
             [lhs EXCEPT ![idx] = [serial |-> serial,
                                   fw_version |-> data[0] + data[1] * 256,
                                   timestamp |-> tc]],
           ref |-> idx,
           pkt |-> [called |-> TRUE, id |-> id, serial |-> serial, tc |-> tc,
                    idx |-> idx, callback |-> TRUE]]

\* memset(ctx->data, 0x0, MAX_PACKET_LEN)
NoData == [i \in 0..(MAX_PACKET_LEN - 1) |-> 0]

\* A zero-filled OOTX context; lighthouse is the slot the context refers to,
\* MAX_NUM_LIGHTHOUSES for the null pointer.
NoOotx ==
  [state |-> "PREAMBLE", data |-> NoData, length |-> 0, pad |-> 0, pos |-> 0,
   syn |-> 0, crc |-> U32(0, 0), preamble |-> 0, lighthouse |-> MAX_NUM_LIGHTHOUSES]

\* What ootx_feed did besides changing the context: the index of data it
\* wrote a bit to (-1 for none), and the outcome of the checksum test if it
\* was made.
Fed(ctx, wrote, check) == [ctx |-> ctx, wrote |-> wrote, check |-> check]

\* case LENGTH
FeedLength(c, bit) ==
  IF c.syn = 16
  THEN LET length == swaps(c.length)
           pad == length % 2
       IN IF length + pad <= MAX_PACKET_LEN
          THEN Fed([c EXCEPT !.length = length, !.pad = pad,
                             !.state = "PAYLOAD", !.syn = 0, !.pos = 0,
                             !.data = NoData], -1, "none")
          ELSE Fed([c EXCEPT !.length = length, !.pad = pad,
                             !.state = "PREAMBLE"], -1, "none")
  ELSE Fed([c EXCEPT !.length = OrBit(@, 15 - c.syn, bit), !.syn = @ + 1],
           -1, "none")

\* case PAYLOAD
FeedPayload(c, bit) ==
  LET pos == IF c.syn = 8 \/ c.syn = 16 THEN c.pos + 1 ELSE c.pos IN
  IF (c.syn = 8 \/ c.syn = 16) /\ pos = c.length + c.pad
  THEN Fed([c EXCEPT !.state = "CHECKSUM", !.syn = 0, !.pos = 0,
                !.crc = U32(0, 0)],
           -1, "none")
  ELSE IF c.syn = 16 THEN Fed([c EXCEPT !.pos = pos, !.syn = 0], -1, "none")
  ELSE Fed([c EXCEPT !.pos = pos, !.syn = @ + 1,
                     !.data = IF pos < MAX_PACKET_LEN
                              THEN [@ EXCEPT ![pos] =
                                      OrBit(@, 7 - (c.syn % 8), bit)]
                              ELSE @],
           pos, "none")

\* Variant: the packet is decoded whatever its checksum.
CrcMatches_any(c) == TRUE

\* crc == swapl(ctx->crc), for crc = crc32(crc32(0, 0, 0), data, length)
CrcMatches(c) == crc32(crc32(U32(0, 0), NoData, 0), c.data, c.length) = swapl(c.crc)

\* case CHECKSUM
FeedChecksum(c, bit) ==
  LET pos == IF c.syn = 8 \/ c.syn = 16 THEN c.pos + 1 ELSE c.pos IN
  IF (c.syn = 8 \/ c.syn = 16) /\ pos = 4
  THEN Fed([c EXCEPT !.state = "PREAMBLE", !.pos = 0, !.syn = 0,
                     !.preamble = 0, !.length = 0],
           -1, IF CrcMatches(c) THEN "match" ELSE "mismatch")
  ELSE IF c.syn = 16 THEN Fed([c EXCEPT !.pos = pos, !.syn = 0], -1, "none")
  ELSE Fed([c EXCEPT !.pos = pos, !.syn = @ + 1,
                     !.crc = OrBit32(@, 31 - (pos * 8 + (c.syn % 8)), bit)],
           -1, "none")

\* static void ootx_feed(tracker, lh, bit, tc), for the context ctx of a
\* lighthouse id lh < MAX_NUM_LIGHTHOUSES, up to the call of decode_packet.
ootx_feed(ctx, bit) ==
  IF bit = 1 /\ ctx.preamble >= PREAMBLE_LENGTH
  THEN Fed([ctx EXCEPT !.state = "LENGTH", !.length = 0, !.pos = 0,
                       !.syn = 0, !.preamble = 0], -1, "none")
  ELSE LET c == [ctx EXCEPT !.preamble = IF bit = 1 THEN 0 ELSE @ + 1] IN
       CASE c.state = "PREAMBLE" -> Fed(c, -1, "none")
         [] c.state = "LENGTH" -> FeedLength(c, bit)
         [] c.state = "PAYLOAD" -> FeedPayload(c, bit)
         [] c.state = "CHECKSUM" -> FeedChecksum(c, bit)

\* tracker->ootx[] before any bit.
NoContexts == [lh \in 0..(MAX_NUM_LIGHTHOUSES - 1) |-> NoOotx]

\* No bits are waiting to be fed.
NoWire == [lh |-> 0, tc |-> 0, bits |-> <<>>]

\* History record: no bit has been fed.
NoBit ==
  [bit |-> 0, zeros |-> 0, wrote |-> -1, check |-> "none", written |-> 0]

----------------------------------------------------------------------------
(* deepdive_data_light.c: sync and sweep pulses *)

\* The number of photodiodes a tracker can carry (MAX_NUM_SENSORS of the
\* header).
MAX_NUM_SENSORS == 32

\* A null tracker->ootx[lh].lighthouse.
NullLighthouse == MAX_NUM_LIGHTHOUSES

\* tracker->lcd before any pulse: lcd->sweep and lcd->per_sweep zero-filled.
\* lcd->global.acode_offset, a running mean that handle_acode writes and that
\* nothing in this file reads, is not part of the record.
NoLcd ==
  [sweep_len |-> [i \in 0..(MAX_NUM_SENSORS - 1) |-> 0],
   sweep_time |-> [i \in 0..(MAX_NUM_SENSORS - 1) |-> 0],
   recent_sync_time |-> 0,
   activeLighthouse |-> 0,
   activeSweepStartTime |-> 0,
   activeAcode |-> 0,
   lh_start_time |-> [i \in 0..(MAX_NUM_LIGHTHOUSES - 1) |-> 0],
   lh_max_pulse_length |-> [i \in 0..(MAX_NUM_LIGHTHOUSES - 1) |-> 0],
   lh_acode |-> [i \in 0..(MAX_NUM_LIGHTHOUSES - 1) |-> 0],
   current_lh |-> 0]

\* int handle_acode(lcd, length): the acode of a sync pulse of that length.
handle_acode(length) == ((length - 2750) \div 500) % 256

\* The sensors whose slot of lcd->sweep holds a sweep.
Held(l) == {i \in 0..(MAX_NUM_SENSORS - 1) : l.sweep_len[i] # 0}

\* uint8_t lh = lcd->per_sweep.activeLighthouse.
LhOf(l) == l.activeLighthouse % 256

\* void handle_measurements(tracker): refs[lh] is tracker->ootx[lh].lighthouse
\* and beyond is what the read of tracker->ootx[lh] gives when lh is not an
\* index of the array. The result is the buffer after the call and the
\* arguments of lig_fn, when it is called. The angles, which are unsigned
\* differences of the other arguments, are not listed.
handle_measurements(l, refs, beyond) ==
  LET lh == LhOf(l)
      ref == IF lh < MAX_NUM_LIGHTHOUSES THEN refs[lh]
             ELSE IF beyond THEN 0 ELSE NullLighthouse
      called == Held(l) # {} /\ ref # NullLighthouse
  IN [lcd |-> [l EXCEPT !.sweep_len = NoLcd.sweep_len,
                        !.sweep_time = NoLcd.sweep_time],
      held |-> Held(l),
      active |-> l.activeLighthouse,
      called |-> called,
      lighthouse |-> IF called THEN ref ELSE NullLighthouse,
      axis |-> l.activeAcode % 2,
      st |-> l.activeSweepStartTime,
      sweeps |-> IF called
                 THEN {[sensor |-> i, time |-> l.sweep_time[i],
                        length |-> l.sweep_len[i]] : i \in Held(l)}
                 ELSE {}]

\* An acode names a sweeping lighthouse: it is set and its skip bit is clear.
Sweeping(acode) == acode >= 0 /\ (acode \div 4) % 2 = 0

\* The lighthouse the loop of handle_sweep picks: the last one with a
\* sweeping acode, or -1.
ActiveOf(l) ==
  LET S == {i \in 0..(MAX_NUM_LIGHTHOUSES - 1) : Sweeping(l.lh_acode[i])}
  IN IF S = {} THEN -1 ELSE CHOOSE i \in S : \A j \in S : j <= i

\* handle_sweep that stores the pulse whether or not a lighthouse is sweeping.
handle_sweep_always(l, timecode, sensor, length) ==
  LET a == ActiveOf(l)
      m == [l EXCEPT !.activeLighthouse = a,
                     !.activeSweepStartTime =
                        IF a < 0 THEN 0 ELSE l.lh_start_time[a],
                     !.activeAcode = IF a < 0 THEN 0 ELSE l.lh_acode[a]]
  IN IF m.sweep_len[sensor] < length
     THEN [m EXCEPT !.sweep_len[sensor] = length,
                    !.sweep_time[sensor] = timecode]
     ELSE m

\* void handle_sweep(tracker, timecode, sensor, length)
handle_sweep(l, timecode, sensor, length) ==
  LET a == ActiveOf(l)
      m == [l EXCEPT !.activeLighthouse = a,
                     !.activeSweepStartTime =
                        IF a < 0 THEN 0 ELSE l.lh_start_time[a],
                     !.activeAcode = IF a < 0 THEN 0 ELSE l.lh_acode[a]]
  IN IF a < 0 THEN m
     ELSE IF m.sweep_len[sensor] < length
     THEN [m EXCEPT !.sweep_len[sensor] = length,
                    !.sweep_time[sensor] = timecode]
     ELSE m

\* void handle_sync(tracker, timecode, sensor, length), after the call of
\* handle_measurements and before the call of ootx_feed: l is the buffer the
\* flush left.
handle_sync(l, timecode, length) ==
  LET acode == handle_acode(length)
      time_since_last_sync == timecode - l.recent_sync_time
  IN IF time_since_last_sync < 2400
     THEN IF length > l.lh_max_pulse_length[l.current_lh]
          THEN [l EXCEPT !.recent_sync_time = timecode,
                         !.lh_max_pulse_length[l.current_lh] = length,
                         !.lh_start_time[l.current_lh] = timecode + length,
                         !.lh_acode[l.current_lh] = acode]
          ELSE [l EXCEPT !.recent_sync_time = timecode]
     ELSE IF time_since_last_sync < 24000
     THEN [l EXCEPT !.activeLighthouse = -1,
                    !.recent_sync_time = timecode,
                    !.current_lh = 1,
                    !.lh_start_time[1] = timecode,
                    !.lh_max_pulse_length[1] = length + length,
                    !.lh_acode[1] = acode]
     ELSE IF time_since_last_sync > 370000
     THEN [l EXCEPT !.activeLighthouse = -1,
                    !.activeSweepStartTime = 0,
                    !.activeAcode = 0,
                    !.recent_sync_time = timecode,
                    !.current_lh = 0,
                    !.lh_start_time =
                       [i \in 0..(MAX_NUM_LIGHTHOUSES - 1) |->
                          IF i = 0 THEN timecode + length ELSE 0],
                    !.lh_max_pulse_length =
                       [i \in 0..(MAX_NUM_LIGHTHOUSES - 1) |->
                          IF i = 0 THEN length ELSE 0],
                    !.lh_acode =
                       [i \in 0..(MAX_NUM_LIGHTHOUSES - 1) |->
                          IF i = 0 THEN acode ELSE -1]]
     ELSE l

\* History record: no pulse has been handled. events and timecode count and
\* date the pulses; flushed says the last pulse was a sync, and the other
\* fields are what its call of handle_measurements found and reported; at is
\* its timecode.
NoFlush ==
  [events |-> 0, timecode |-> 0, flushed |-> FALSE, held |-> {},
   active |-> 0, called |-> FALSE, lighthouse |-> NullLighthouse,
   sweeps |-> {}, at |-> 0]

\* The decoder has not been fed and no pulse has been handled.
DecoderOff ==
  /\ ootx = NoContexts
  /\ lighthouses = NoLighthouses
  /\ wire = NoWire
  /\ fed = NoBit
  /\ pkt = NoPacket
  /\ lcd = NoLcd
  /\ lig = NoFlush

----------------------------------------------------------------------------
(* State machine *)

\* No evaluation of TransformCost is under way.
NoCost == [mTs |-> Zero6, mTt |-> Zero6, sTt |-> Zero6, residual |-> <<>>]

\* The code outside the node's callbacks is at rest.
LibInit == cost = NoCost /\ pending = <<>> /\ DecoderOff

\* History record of a callback that is neither a light observation nor a
\* trigger.
Quiet(op) ==
  [op |-> op, rec |-> FALSE, msg |-> <<>>, res |-> NoResponse, solves |-> 0,
   ret |-> FALSE, processed |-> 0, solver |-> "notrun", pipe |-> NoPipe,
   trace |-> <<>>]

\* Variant: the restarted timer is due at once.
Restarted_due == [started |-> TRUE, remaining |-> 0]

\* timer_.stop(); timer_.start(): the timer is armed for a full period.
Restarted == [started |-> TRUE, remaining |-> TimerPeriod]
\* A timer that is not running: created with autostart = false, or a
\* one-shot timer that has fired.
Stopped == [started |-> FALSE, remaining |-> 0]

\* main(), up to ros::spin().
Init ==
  /\ LibInit
  /\ offline_ \in BOOLEAN
  /\ recording_ = offline_
  /\ measurements_ = EmptyMap
  /\ trackers_ = [t \in TrackerSerials |-> [ready |-> FALSE, vTt |-> <<>>]]
  /\ \E m \in MasterLoaded, v \in SlaveLoaded :
       lighthouses_ = [l \in LighthouseSerials |->
                         [ready |-> FALSE,
                          vTl |-> IF l = First(LighthouseSerials) THEN m ELSE v]]
  /\ timer_ = Stopped
  /\ now = 0
  /\ pc = "spin"
  /\ last = Quiet("main")

\* The clock advances by one tick; a running timer comes closer to expiry.
Tick ==
  /\ UNCHANGED libvars
  /\ now < MaxTime
  /\ now' = now + 1
  /\ timer_' = IF timer_.started /\ timer_.remaining > 0
               THEN [timer_ EXCEPT !.remaining = @ - 1] ELSE timer_
  /\ last' = Quiet("tick")
  /\ UNCHANGED <<offline_, recording_, measurements_, trackers_, lighthouses_,
                 pc>>

\* TrackerCallback (deepdive.hh): a configured tracker reports its
\* calibration and becomes ready.
TrackerReady ==
  \E t \in DOMAIN trackers_ :
    /\ UNCHANGED libvars
    /\ ~trackers_[t].ready
    /\ trackers_' = [trackers_ EXCEPT ![t].ready = TRUE]
    /\ last' = Quiet("TrackerCallback")
    /\ UNCHANGED <<offline_, recording_, measurements_, lighthouses_, timer_,
                   now, pc>>

\* LighthouseCallback (deepdive.hh): a configured lighthouse reports its
\* calibration and becomes ready.
LighthouseReady ==
  \E l \in DOMAIN lighthouses_ :
    /\ UNCHANGED libvars
    /\ ~lighthouses_[l].ready
    /\ lighthouses_' = [lighthouses_ EXCEPT ![l].ready = TRUE]
    /\ last' = Quiet("LighthouseCallback")
    /\ UNCHANGED <<offline_, recording_, measurements_, trackers_, timer_,
                   now, pc>>

\* Variant: the timer is restarted only for an observation that passes the
\* readiness test.
LightArrives_checkFirst(msg) ==
  /\ UNCHANGED libvars
  /\ timer_' = IF NotAccepting(recording_, trackers_, lighthouses_, msg)
               THEN timer_ ELSE Restarted
  /\ measurements_' = LightStore(recording_, trackers_, lighthouses_,
                                 measurements_, now, msg)
  /\ last' = [Quiet("LightCallback") EXCEPT !.rec = recording_, !.msg = msg]
  /\ UNCHANGED <<offline_, recording_, trackers_, lighthouses_, now, pc>>

\* void LightCallback(msg), for one observation msg
LightArrives(msg) ==
  /\ UNCHANGED libvars
  /\ timer_' = Restarted
  /\ measurements_' = LightStore(recording_, trackers_, lighthouses_,
                                 measurements_, now, msg)
  /\ last' = [Quiet("LightCallback") EXCEPT !.rec = recording_, !.msg = msg]
  /\ UNCHANGED <<offline_, recording_, trackers_, lighthouses_, now, pc>>

\* The bus delivers an observation.
LightCallback == \E msg \in Lights : LightArrives(msg)

\* The effect of one call of TriggerCallback on the node.
Triggered(op) ==
  \E pnp \in SUBSET PnPCandidates(measurements_, trackers_, lighthouses_),
     usable \in BOOLEAN, solved \in SolvedTransforms :
    \E c \in {TriggerCallback(recording_, measurements_, trackers_,
                             lighthouses_, pnp, usable, solved)} :
       /\ recording_' = c.recording
       /\ measurements_' = c.measurements
       /\ trackers_' = c.trackers
       /\ lighthouses_' = c.lighthouses
       /\ last' = [op |-> op, rec |-> recording_, msg |-> <<>>, res |-> c.res,
                   solves |-> c.solves, ret |-> c.ret,
                   processed |-> c.processed, solver |-> c.solver,
                   pipe |-> c.pipe, trace |-> c.trace]

\* The /trigger service is called.
Trigger ==
  /\ UNCHANGED libvars
  /\ Triggered("TriggerCallback")
  /\ UNCHANGED <<offline_, timer_, now, pc>>

\* Variant: the timeout only ends a recording; in Idle it does nothing.
TimerCallback_stopOnly ==
  /\ UNCHANGED libvars
  /\ timer_.started /\ timer_.remaining = 0
  /\ timer_' = Stopped
  /\ IF recording_ THEN Triggered("TimerCallback")
     ELSE /\ last' = [Quiet("TimerCallback") EXCEPT
                        !.res = [success |-> TRUE,
                                 message |-> "Recording started."]]
          /\ UNCHANGED <<recording_, measurements_, trackers_, lighthouses_>>
  /\ UNCHANGED <<offline_, now, pc>>

\* void TimerCallback(event): the one-shot timer expires and fakes a trigger.
TimerCallback ==
  /\ UNCHANGED libvars
  /\ timer_.started /\ timer_.remaining = 0
  /\ timer_' = Stopped
  /\ Triggered("TimerCallback")
  /\ UNCHANGED <<offline_, now, pc>>

Next ==
  \/ Tick
  \/ TrackerReady
  \/ LighthouseReady
  \/ LightCallback
  \/ Trigger
  \/ TimerCallback

Spec == Init /\ [][Next]_vars

----------------------------------------------------------------------------
(* Solve on a recorded session *)

\* The latest stamp of a recorded measurement.
MaxStamp == 3

\* Observations of a recording session, and what LightCallback stores of
\* them: the message with the rejected pulses erased.
\* P_sweep: 5 pulses with different angles, one of them too short.
P_sweep == <<Pulse(0, 20, 2), Pulse(1, 10, thresh_duration_ - 1),
             Pulse(2, 30, 2), Pulse(3, 10, 2), Pulse(4, 10, 2)>>
SolveLights ==
  {Light("T1", l, a, P_ok) : l \in LighthouseSerials, a \in {0, 1}}
  \cup {Light("T1", 1, 0, P_sweep)}
StoredLights == {[m EXCEPT !.pulses = Filter(m.pulses)] : m \in SolveLights}

\* A recording session at the moment its silence timeout is due: every device
\* is ready, the store holds what LightCallback has accepted at some of the
\* stamps up to MaxStamp, and the timer armed by the last observation has run
\* its full period.
InitSolve ==
  /\ LibInit
  /\ offline_ = FALSE
  /\ recording_ = TRUE
  /\ \E S \in SUBSET (0..MaxStamp) : measurements_ \in [S -> StoredLights]
  /\ trackers_ = [t \in TrackerSerials |-> [ready |-> TRUE, vTt |-> <<>>]]
  /\ \E v \in SlaveLoaded :
       lighthouses_ = [l \in LighthouseSerials |->
                         [ready |-> TRUE,
                          vTl |-> IF l = First(LighthouseSerials)
                                  THEN Zero6 ELSE v]]
  /\ timer_ = [started |-> TRUE, remaining |-> 0]
  /\ now = MaxStamp + TimerPeriod
  /\ pc = "spin"
  /\ last = Quiet("LightCallback")

NextSolve ==
  \/ Trigger
  \/ TimerCallback

SpecSolve == InitSolve /\ [][NextSolve]_vars

----------------------------------------------------------------------------
(* TriggerCallback, statement by statement *)

\* Variant: callbacks are dispatched from several threads, so one can start
\* while another has not returned.
Dispatch_async == TRUE

\* ros::spin(): the node's only thread takes the next callback from the
\* queue when the one before has returned.
Dispatch == pc = "spin"

\* TriggerCallback is entered: the `if (!recording_)` block runs, and in
\* Recording the thread is about to call Solve.
Enter(op) ==
  /\ pc' = IF recording_ THEN "solve" ELSE "toggle"
  /\ last' = [Quiet(op) EXCEPT
                !.rec = recording_,
                !.res = IF recording_ THEN NoResponse
                        ELSE StartRecording(measurements_, trackers_,
                                            lighthouses_).res]
  /\ UNCHANGED <<recording_, measurements_, trackers_, lighthouses_>>

\* The /trigger service is called.
EnterTrigger ==
  /\ UNCHANGED libvars
  /\ Dispatch
  /\ Enter("TriggerCallback")
  /\ UNCHANGED <<offline_, timer_, now>>

\* The one-shot timer expires: TimerCallback calls TriggerCallback.
EnterTimer ==
  /\ UNCHANGED libvars
  /\ Dispatch
  /\ timer_.started /\ timer_.remaining = 0
  /\ timer_' = Stopped
  /\ Enter("TimerCallback")
  /\ UNCHANGED <<offline_, now>>

\* res.success = Solve(); and the response message.
RunSolve ==
  /\ UNCHANGED libvars
  /\ pc = "solve"
  /\ \E pnp \in SUBSET PnPCandidates(measurements_, trackers_, lighthouses_),
        usable \in BOOLEAN, solved \in SolvedTransforms :
       \E c \in {StopRecording(measurements_, trackers_, lighthouses_,
                                pnp, usable, solved)} :
         /\ trackers_' = c.trackers
         /\ lighthouses_' = c.lighthouses
         /\ last' = [op |-> "Solve", rec |-> recording_, msg |-> <<>>,
                     res |-> c.res, solves |-> c.solves, ret |-> c.ret,
                     processed |-> c.processed, solver |-> c.solver,
                     pipe |-> c.pipe, trace |-> c.trace]
  /\ pc' = "clear"
  /\ UNCHANGED <<offline_, recording_, measurements_, timer_, now>>

\* measurements_.clear();
ClearStore ==
  /\ UNCHANGED libvars
  /\ pc = "clear"
  /\ measurements_' = EmptyMap
  /\ pc' = "toggle"
  /\ UNCHANGED <<offline_, recording_, trackers_, lighthouses_, timer_, now,
                 last>>

\* recording_ = !recording_; return true;
ToggleState ==
  /\ UNCHANGED libvars
  /\ pc = "toggle"
  /\ recording_' = Toggle(recording_, last.res)
  /\ pc' = "spin"
  /\ UNCHANGED <<offline_, measurements_, trackers_, lighthouses_, timer_, now,
                 last>>

NextSteps ==
  \/ Tick
  \/ Dispatch /\ TrackerReady
  \/ Dispatch /\ LighthouseReady
  \/ Dispatch /\ LightCallback
  \/ EnterTrigger
  \/ EnterTimer
  \/ RunSolve
  \/ ClearStore
  \/ ToggleState

SpecSteps == Init /\ [][NextSteps]_vars

----------------------------------------------------------------------------
(* main(), run on the parameters the node is started with *)

\* What the parameter server holds when the node starts:
\*   offline     : the "offline" parameter, or "missing"
\*   scalars     : whether every other scalar parameter (calfile, frames/*,
\*                 thresholds/*, refine/*, resolution, weight/*, correct,
\*                 solver/*, visualize) is set
\*   lighthouses : the length of each lighthouse's "transform" vector
\*   trackers    : the length of each tracker's "transform" vector
Configs ==
  [offline : {"true", "false", "missing"},
   scalars : BOOLEAN,
   lighthouses : [LighthouseSerials -> {TransformLen, TransformLen - 1}],
   trackers : [TrackerSerials -> {TransformLen, TransformLen - 1}]]

\* The process has been started: the globals hold their static initial
\* values, and main() has the parameters cfg before it.
InitMain ==
  /\ LibInit
  /\ offline_ = FALSE
  /\ recording_ = FALSE
  /\ measurements_ = EmptyMap
  /\ trackers_ = <<>>
  /\ lighthouses_ = <<>>
  /\ timer_ = Stopped
  /\ now = 0
  /\ pc = "main"
  /\ \E cfg \in Configs : last = [Quiet("exec") EXCEPT !.msg = cfg]

\* main(), up to ros::spin().  ROS_FATAL writes a log message and returns;
\* a getParam that fails leaves its variable as it was; a transform that
\* does not have 7 components makes the loop skip that device (continue).
Main ==
  /\ UNCHANGED libvars
  /\ pc = "main"
  /\ offline_' = (last.msg.offline = "true")
  /\ recording_' = (last.msg.offline = "true")
  /\ \E m \in MasterLoaded, v \in SlaveLoaded :
       lighthouses_' =
         [l \in {x \in LighthouseSerials :
                   last.msg.lighthouses[x] = TransformLen} |->
            [ready |-> FALSE,
             vTl |-> IF l = First(LighthouseSerials) THEN m ELSE v]]
  /\ trackers_' =
       [t \in {x \in TrackerSerials : last.msg.trackers[x] = TransformLen} |->
          [ready |-> FALSE, vTt |-> <<>>]]
  /\ timer_' = Stopped
  /\ pc' = "spin"
  /\ last' = [Quiet("main") EXCEPT !.msg = last.msg]
  /\ UNCHANGED <<measurements_, now>>

NextMain ==
  \/ Main
  \/ Dispatch /\ Trigger

SpecMain == InitMain /\ [][NextMain]_vars

----------------------------------------------------------------------------
(* The erase loop of LightCallback on arbitrary pulse lists *)

\* The observations have at most MaxPulses pulses.
MaxPulses == 6

\* The pulses examined by the erase loop, in the order of examination: the
\* loop of EraseLoop, recording *it at each evaluation of the rejection test.
RECURSIVE Visits(_, _)
Visits(pulses, it) ==
  IF ~(it > 0) THEN <<>>
  ELSE LET i == it - 1 IN
       <<pulses[i + 1]>> \o
         Visits(IF Reject(pulses[i + 1]) THEN Erase(pulses, i + 1) ELSE pulses,
                i)

\* Angle and duration of a pulse: at both thresholds, angle just over,
\* duration just under.
PulseKinds ==
  {<<thresh_angle_, thresh_duration_>>, <<thresh_angle_ + 1, 2>>,
   <<10, thresh_duration_ - 1>>}

\* Every list of at most MaxPulses pulses of these kinds; the pulse at
\* position i is that of sensor i - 1.
AllPulseLists ==
  UNION {{[i \in 1..n |-> Pulse(i - 1, k[i][1], k[i][2])] :
            k \in [1..n -> PulseKinds]} : n \in 0..MaxPulses}

\* Observations of the master lighthouse by the tracker.
FilterLights ==
  {Light("T1", First(LighthouseSerials), 0, p) : p \in AllPulseLists}

\* The node is Recording with every device ready and nothing stored; one
\* observation is about to arrive.
InitFilter ==
  /\ cost = NoCost
  /\ DecoderOff
  /\ pending \in FilterLights
  /\ offline_ = FALSE
  /\ recording_ = TRUE
  /\ measurements_ = EmptyMap
  /\ trackers_ = [t \in TrackerSerials |-> [ready |-> TRUE, vTt |-> <<>>]]
  /\ \E m \in MasterLoaded, v \in SlaveLoaded :
       lighthouses_ = [l \in LighthouseSerials |->
                         [ready |-> TRUE,
                          vTl |-> IF l = First(LighthouseSerials) THEN m ELSE v]]
  /\ timer_ = Stopped
  /\ now = 0
  /\ pc = "spin"
  /\ last = Quiet("TriggerCallback")

\* The bus delivers the observation.
FilterCallback == LightArrives(pending)

NextFilter == FilterCallback

SpecFilter == InitFilter /\ [][NextFilter]_vars

----------------------------------------------------------------------------
(* TransformCost, the residual of the global solver *)

(* Rotations are kept to the half turns about the coordinate axes and the    *)
(* identity, with angles in units of pi: the angle-axis vector <<0, 0, 1>>   *)
(* is a rotation by pi about z.  On these the quaternions have integer      *)
(* components, and the ceres conversions are exact.                         *)

\* The translations of the poses have x and y within -MaxCoord..MaxCoord.
MaxCoord == 1

\* ceres::AngleAxisToQuaternion: q = (cos(t/2), sin(t/2) * axis), with t the
\* norm of the angle-axis vector; (1, 0, 0, 0) for the zero vector.
AngleAxisToQuaternion(aa) ==
  IF aa = <<0, 0, 0>> THEN <<1, 0, 0, 0>> ELSE <<0, aa[1], aa[2], aa[3]>>

\* ceres::QuaternionProduct
QuaternionProduct(z, w) ==
  <<z[1] * w[1] - z[2] * w[2] - z[3] * w[3] - z[4] * w[4],
    z[1] * w[2] + z[2] * w[1] + z[3] * w[4] - z[4] * w[3],
    z[1] * w[3] - z[2] * w[4] + z[3] * w[1] + z[4] * w[2],
    z[1] * w[4] + z[2] * w[3] - z[3] * w[2] + z[4] * w[1]>>

\* ceres::QuaternionToAngleAxis: the zero vector when the vector part of q
\* is zero; otherwise 2 * atan2(sin, cos) / sin times the vector part, which
\* for cos = 0 and sin = 1 is pi times the vector part.
QuaternionToAngleAxis(q) == <<q[2], q[3], q[4]>>

\* TransformCost::operator(): the residual for the slave -> master transform
\* mTs, the tracker -> master pose mTt and the tracker -> slave pose sTt.
TransformCost(mTs, mTt, sTt) ==
  LET mRt == AngleAxisToQuaternion(<<mTt[4], mTt[5], mTt[6]>>)
      mRs == AngleAxisToQuaternion(<<mTs[4], mTs[5], mTs[6]>>)
      sRt == AngleAxisToQuaternion(<<sTt[4], sTt[5], sTt[6]>>)
      p == QuaternionProduct(mRs, sRt)
      mRt_inv == <<p[1], -p[2], -p[3], -p[4]>>
      r == QuaternionToAngleAxis(QuaternionProduct(mRt, mRt_inv))
  IN <<mTt[1] - (mTs[1] + sTt[1]), mTt[2] - (mTs[2] + sTt[2]),
       mTt[3] - (mTs[3] + sTt[3]), r[1], r[2], r[3]>>

\* The rotations of the poses: the identity and the half turns about x, y, z.
HalfTurns == {<<0, 0, 0>>, <<1, 0, 0>>, <<0, 1, 0>>, <<0, 0, 1>>}

\* The vector v turned by the rotation with angle-axis vector a.
Rotated(a, v) ==
  IF a = <<0, 0, 0>> THEN v
  ELSE LET d == a[1] * v[1] + a[2] * v[2] + a[3] * v[3]
       IN <<2 * d * a[1] - v[1], 2 * d * a[2] - v[2], 2 * d * a[3] - v[3]>>

\* The product of the rotations with angle-axis vectors a and b: two
\* different half turns make the third, two equal ones make the identity.
Turned(a, b) ==
  IF a = <<0, 0, 0>> THEN b
  ELSE IF b = <<0, 0, 0>> THEN a
  ELSE IF a = b THEN <<0, 0, 0>>
  ELSE CHOOSE c \in HalfTurns \ {<<0, 0, 0>>} : c # a /\ c # b

\* The rigid composition of the slave -> master transform mTs with the
\* tracker -> slave pose sTt: the tracker -> master pose p = R * s + t.
Composed(mTs, sTt) ==
  LET a == <<mTs[4], mTs[5], mTs[6]>>
      v == Rotated(a, <<sTt[1], sTt[2], sTt[3]>>)
      r == Turned(a, <<sTt[4], sTt[5], sTt[6]>>)
  IN <<v[1] + mTs[1], v[2] + mTs[2], v[3] + mTs[3], r[1], r[2], r[3]>>

\* The transforms and poses given to TransformCost.
CostTransforms ==
  {<<x, y, 0, a[1], a[2], a[3]>> :
     x \in (-MaxCoord)..MaxCoord, y \in (-MaxCoord)..MaxCoord, a \in HalfTurns}

\* The node's globals hold their static initial values; main() has not run.
NodeOff ==
  /\ offline_ = FALSE
  /\ recording_ = FALSE
  /\ measurements_ = EmptyMap
  /\ trackers_ = <<>>
  /\ lighthouses_ = <<>>
  /\ timer_ = Stopped
  /\ now = 0
  /\ pc = "main"
  /\ last = Quiet("exec")

\* The solver is about to evaluate the residual of one block: a slave
\* transform, a slave-frame pose, and a master-frame pose that is either the
\* rigid composition of the two or a pose of its own.
InitCost ==
  /\ NodeOff
  /\ pending = <<>>
  /\ DecoderOff
  /\ \E mTs \in CostTransforms, sTt \in CostTransforms :
       \E mTt \in {Composed(mTs, sTt), sTt} :
         cost = [mTs |-> mTs, mTt |-> mTt, sTt |-> sTt, residual |-> <<>>]

\* ceres evaluates the cost function of the block.
Evaluate ==
  /\ cost.residual = <<>>
  /\ cost' = [cost EXCEPT !.residual = TransformCost(cost.mTs, cost.mTt,
                                                     cost.sTt)]
  /\ UNCHANGED <<nodevars, pending, ootxvars, lcd, lig>>

NextCost == Evaluate

SpecCost == InitCost /\ [][NextCost]_vars

----------------------------------------------------------------------------
(* The OOTX decoder fed bit by bit *)

\* The noise fed to the decoder is at most MaxNoise bits long.
MaxNoise == 3

\* The bits of a byte, most significant first.
ByteBits(b) == [i \in 1..8 |-> BitOf(b, 8 - i)]

\* The bits of a sequence of bytes.
RECURSIVE BytesBits(_)
BytesBits(bytes) ==
  IF bytes = <<>> THEN <<>> ELSE ByteBits(Head(bytes)) \o BytesBits(Tail(bytes))

\* The bits of an even number of bytes as the lighthouse sends them: a sync
\* bit 1 after every 16 bits.
RECURSIVE WithSync(_)
WithSync(bits) ==
  IF bits = <<>> THEN <<>>
  ELSE SubSeq(bits, 1, 16) \o <<1>> \o WithSync(SubSeq(bits, 17, Len(bits)))

\* PREAMBLE_LENGTH zeros and a one.
Preamble == [i \in 1..PREAMBLE_LENGTH |-> 0] \o <<1>>

\* The bytes of a 16-bit and of a 32-bit value, least significant first.
Word16(n) == <<n % 256, (n \div 256) % 256>>
Word32(v) == Word16(v[2]) \o Word16(v[1])

\* The length field of a frame.
LengthField(n) == WithSync(BytesBits(Word16(n)))

\* A frame: preamble, length, the padded payload, the checksum.
Frame(length, bytes, crc) ==
  Preamble \o LengthField(length) \o WithSync(BytesBits(bytes))
    \o WithSync(BytesBits(Word32(crc)))

\* The bytes as the content of ctx->data.
DataOf(bytes) ==
  [i \in 0..(MAX_PACKET_LEN - 1) |-> IF i < Len(bytes) THEN bytes[i + 1] ELSE 0]

\* A frame with the checksum of its first `length` bytes.
GoodFrame(length, bytes) ==
  Frame(length, bytes, crc32(U32(0, 0), DataOf(bytes), length))

\* A frame with a wrong checksum.
BadFrame(length, bytes) ==
  LET crc == crc32(U32(0, 0), DataOf(bytes), length) IN
  Frame(length, bytes, U32(crc[1], Xor(crc[2], 1)))

\* The first bytes of an OOTX payload: firmware version and serial number.
Payload(serial) ==
  <<1, 0>> \o Word32(U32(serial \div 65536, serial % 65536))

\* The serial numbers of the lighthouses in range, more than there are slots.
PacketSerials == {7, 300, 70000}

\* k ones
Ones(k) == [i \in 1..k |-> 1]

\* What the photodiodes deliver for one lighthouse id, with the timecode of
\* the bits:
\*   a frame, and a second frame of another lighthouse, at timecodes 0 and 5
\*   a frame with a wrong checksum, then a frame
\*   a frame of odd length 5, with a pad byte that is not zero
\*   a frame of length 0 (with the checksum of no bytes), then a frame
\*   a length field beyond MAX_PACKET_LEN, then a frame
\*   a frame cut off in its payload, then a frame
\*   a frame cut off in its checksum, then a frame
\*   a frame for a lighthouse id out of range
\*   noise: every bit string of up to MaxNoise bits, from rest, after a
\*   preamble, after a length field and after a payload
Scripts ==
  {[lh |-> l, tc |-> t,
    bits |-> GoodFrame(6, Payload(7)) \o GoodFrame(6, Payload(300))] :
     l \in {0, 1}, t \in {0, 5}}
  \cup {[lh |-> 0, tc |-> 5, bits |-> b] : b \in
     {BadFrame(6, Payload(7)) \o GoodFrame(6, Payload(7)),
      GoodFrame(5, <<1, 0, 7, 0, 0, 9>>),
      GoodFrame(0, <<>>) \o GoodFrame(6, Payload(7)),
      Preamble \o LengthField(MAX_PACKET_LEN + 1) \o Ones(3)
        \o GoodFrame(6, Payload(7)),
      Preamble \o LengthField(6) \o WithSync(BytesBits(<<1, 0>>))
        \o GoodFrame(6, Payload(7)),
      Preamble \o LengthField(2) \o WithSync(BytesBits(<<1, 0>>)) \o Ones(20)
        \o GoodFrame(6, Payload(7))}}
  \cup {[lh |-> MAX_NUM_LIGHTHOUSES, tc |-> 5,
         bits |-> GoodFrame(6, Payload(7))]}
  \cup {[lh |-> 0, tc |-> 5, bits |-> start \o noise] :
          start \in {<<>>, Preamble, Preamble \o LengthField(2),
                     Preamble \o LengthField(2)
                       \o WithSync(BytesBits(<<1, 0>>))},
          noise \in UNION {[1..n -> {0, 1}] : n \in 1..MaxNoise}}

\* The tracker starts to receive one of the scripts.
InitOotx ==
  /\ NodeOff
  /\ cost = NoCost
  /\ pending = <<>>
  /\ ootx = NoContexts
  /\ lighthouses = NoLighthouses
  /\ wire \in Scripts
  /\ fed = NoBit
  /\ pkt = NoPacket
  /\ lcd = NoLcd
  /\ lig = NoFlush

\* The history record after a bit: the bit, the run of zeros it ends or
\* extends, what ootx_feed did, and the number of bits written to data since
\* the decoder entered PAYLOAD.
Bit(bit, f, before) ==
  [bit |-> bit,
   zeros |-> IF bit = 0 THEN fed.zeros + 1 ELSE 0,
   wrote |-> f.wrote,
   check |-> f.check,
   written |-> IF f.ctx.state # "PAYLOAD" THEN fed.written
               ELSE IF before # "PAYLOAD" THEN 0
               ELSE fed.written + (IF f.wrote = -1 THEN 0 ELSE 1)]

\* One call ootx_feed(tracker, lh, bit, tc) for lh < MAX_NUM_LIGHTHOUSES, with
\* the call of decode_packet when the checksum matches.
FeedOne(lh, bit, tc) ==
  \E f \in {ootx_feed(ootx[lh], bit)} :
    \E d \in {IF f.check = "match"
              THEN decode_packet(lighthouses, ootx[lh].lighthouse,
                                 lh, ootx[lh].data, tc)
              ELSE [lighthouses |-> lighthouses,
                    ref |-> ootx[lh].lighthouse,
                    pkt |-> NoPacket]} :
      /\ ootx' = [ootx EXCEPT ![lh] = [f.ctx EXCEPT !.lighthouse = d.ref]]
      /\ lighthouses' = d.lighthouses
      /\ pkt' = d.pkt
      /\ fed' = Bit(bit, f, ootx[lh].state)

\* The next bit of the script is fed.
Feed ==
  /\ wire.bits # <<>>
  /\ wire' = [wire EXCEPT !.bits = Tail(@)]
  /\ IF wire.lh >= MAX_NUM_LIGHTHOUSES
     THEN /\ fed' = Bit(Head(wire.bits), Fed(NoOotx, -1, "none"), "PREAMBLE")
          /\ UNCHANGED <<ootx, lighthouses, pkt>>
     ELSE FeedOne(wire.lh, Head(wire.bits), wire.tc)
  /\ UNCHANGED <<nodevars, cost, pending, lcd, lig>>

NextOotx == Feed

SpecOotx == InitOotx /\ [][NextOotx]_vars

----------------------------------------------------------------------------
(* The OOTX decoder fed frame by frame *)

\* The timecodes of the frames are within 0..MaxTimecode.
MaxTimecode == 1

\* The tracker has not received anything.
InitPacket ==
  /\ NodeOff
  /\ cost = NoCost
  /\ pending = <<>>
  /\ DecoderOff

\* The checksums the lighthouses send with their frames.
Checksums ==
  [serial \in PacketSerials |-> crc32(U32(0, 0), DataOf(Payload(serial)), 6)]

\* A frame with a valid checksum has been fed to the context of lighthouse
\* id: the last call of ootx_feed for it calls decode_packet and leaves the
\* context in PREAMBLE.
FeedFrame ==
  \E id \in 0..(MAX_NUM_LIGHTHOUSES - 1), serial \in PacketSerials,
     tc \in 0..MaxTimecode :
    \E data \in {DataOf(Payload(serial))} :
      \E d \in {decode_packet(lighthouses, ootx[id].lighthouse, id, data, tc)} :
        /\ ootx' = [ootx EXCEPT
                      ![id] = [NoOotx EXCEPT
                                 !.data = data,
                                 !.crc = swapl(Checksums[serial]),
                                 !.lighthouse = d.ref]]
        /\ lighthouses' = d.lighthouses
        /\ pkt' = d.pkt
        /\ UNCHANGED <<nodevars, cost, pending, wire, fed, lcd, lig>>

NextPacket == FeedFrame

SpecPacket == InitPacket /\ [][NextPacket]_vars

----------------------------------------------------------------------------
(* The pulse handlers on arbitrary sequences of sync and sweep pulses *)

\* The number of pulses a run hands to deepdive_data_light.
MaxEvents == 4

\* What the photodiodes capture. Sync pulses: of lengths 3000, 4000 and 5000,
\* with the acodes 0 (sweeping, data bit 0), 2 (sweeping, data bit 1) and 4
\* (skip bit set), at a gap to the pulse before that is within a sync group
\* (< 2400), reaches the second lighthouse's sync (< 24000), lies in neither
\* range, or follows a pause (> 370000). Sweep pulses: on the first and on
\* the last sensor, and one longer than the first. Two pulses that
\* deepdive_data_light drops: one too long and one of a sensor out of range.
\* The timecode counts up without wrapping, and no pulse is of sensor
\* MAX_NUM_SENSORS itself.
Captures ==
  {[gap |-> g, sensor |-> 0, length |-> n] :
     g \in {1000, 20000, 100000, 400000}, n \in {3000, 4000, 5000}}
  \cup {[gap |-> 1000, sensor |-> s, length |-> 100] :
          s \in {0, MAX_NUM_SENSORS - 1}}
  \cup {[gap |-> 1000, sensor |-> 0, length |-> 200],
        [gap |-> 1000, sensor |-> 0, length |-> 7000],
        [gap |-> 1000, sensor |-> MAX_NUM_SENSORS + 1, length |-> 100]}

\* The trailing zero bits of a byte.
RECURSIVE Zeros(_)
Zeros(b) == IF b = 0 THEN 8 ELSE IF b % 2 = 1 THEN 0 ELSE 1 + Zeros(b \div 2)

\* The context of a lighthouse id once a frame has been decoded into the
\* slot ref.
Decoded(serial, ref) ==
  [NoOotx EXCEPT !.data = DataOf(Payload(serial)),
                 !.crc = swapl(Checksums[serial]),
                 !.lighthouse = ref]

\* The context one bit before the end of the first frame.
AlmostDecoded(serial) ==
  [NoOotx EXCEPT !.state = "CHECKSUM",
                 !.data = DataOf(Payload(serial)),
                 !.length = 6,
                 !.pos = 3,
                 !.syn = 16,
                 !.crc = swapl(Checksums[serial]),
                 !.preamble = Zeros(Checksums[serial][1] \div 256)]

\* Where the decoder is when the run starts: at rest, with a packet decoded
\* for lighthouse id 0, and one bit before that.
DecoderStarts ==
  {[ootx |-> NoContexts, lighthouses |-> NoLighthouses],
   [ootx |-> [NoContexts EXCEPT ![0] = Decoded(7, 0)],
    lighthouses |->
      decode_packet(NoLighthouses, NullLighthouse, 0,
                    DataOf(Payload(7)), 0).lighthouses],
   [ootx |-> [NoContexts EXCEPT ![0] = AlmostDecoded(7)],
    lighthouses |-> NoLighthouses]}

InitLight ==
  /\ NodeOff
  /\ cost = NoCost
  /\ pending = <<>>
  /\ wire = NoWire
  /\ fed = NoBit
  /\ pkt = NoPacket
  /\ lcd = NoLcd
  /\ lig = NoFlush
  /\ \E s \in DecoderStarts : ootx = s.ootx /\ lighthouses = s.lighthouses

\* void deepdive_data_light(tracker, timecode, sensor, length), for the
\* capture c: the pulse is dropped, or it is a sync pulse (handle_sync, with
\* its calls of handle_measurements and ootx_feed), or it is a sweep pulse
\* (handle_sweep).
deepdive_data_light(c) ==
  LET timecode == lig.timecode + c.gap
      seen == [lig EXCEPT !.events = @ + 1, !.timecode = timecode,
                          !.flushed = FALSE]
  IN /\ IF c.sensor > MAX_NUM_SENSORS \/ c.length > 6750
        THEN /\ lig' = seen
             /\ UNCHANGED <<lcd, ootx, lighthouses, fed, pkt>>
        ELSE IF c.length > 2750
        THEN \E beyond \in IF LhOf(lcd) < MAX_NUM_LIGHTHOUSES
                           THEN {FALSE} ELSE BOOLEAN :
               \E m \in {handle_measurements(
                           lcd,
                           [i \in 0..(MAX_NUM_LIGHTHOUSES - 1) |->
                              ootx[i].lighthouse],
                           beyond)} :
                 \E l \in {handle_sync(m.lcd, timecode, c.length)} :
                   /\ lcd' = l
                   /\ lig' = [seen EXCEPT !.flushed = TRUE,
                                          !.held = m.held,
                                          !.active = m.active,
                                          !.called = m.called,
                                          !.lighthouse = m.lighthouse,
                                          !.sweeps = m.sweeps,
                                          !.at = timecode]
                   /\ IF l.current_lh < MAX_NUM_LIGHTHOUSES
                      THEN FeedOne(l.current_lh,
                                   (handle_acode(c.length) \div 2) % 2,
                                   timecode)
                      ELSE UNCHANGED <<ootx, lighthouses, fed, pkt>>
        ELSE /\ lcd' = handle_sweep(lcd, timecode, c.sensor, c.length)
             /\ lig' = seen
             /\ UNCHANGED <<ootx, lighthouses, fed, pkt>>
     /\ UNCHANGED <<nodevars, cost, pending, wire>>

\* The tracker hands the next pulse to the library.
DataLight ==
  /\ lig.events < MaxEvents
  /\ \E c \in Captures : deepdive_data_light(c)

SpecLight == InitLight /\ [][DataLight]_vars

----------------------------------------------------------------------------
TypeOK ==
  /\ offline_ \in BOOLEAN
  /\ recording_ \in BOOLEAN
  /\ DOMAIN measurements_ \subseteq 0..MaxTime
  /\ now \in 0..MaxTime
  /\ timer_.remaining \in 0..TimerPeriod
----------------------------------------------------------------------------
(* Properties *)

\* The callbacks that run TriggerCallback.
TriggerOps == {"TriggerCallback", "TimerCallback"}

\* Event a occurs in the call trace tr, and before every occurrence of b.
Precedes(a, b, tr) ==
  \E i \in 1..Len(tr) :
    /\ tr[i] = a
    /\ \A j \in 1..Len(tr) : tr[j] = b => i < j

\* The pulses of a list that are within both thresholds, in their order.
Survivors(pulses) ==
  SelectSeq(pulses, LAMBDA p : p.angle <= thresh_angle_
                               /\ p.duration >= thresh_duration_)

\* The tracker and the lighthouse of msg are in the rosters and ready.
KnownAndReady(msg) ==
  /\ msg.frame_id \in DOMAIN trackers_
  /\ msg.lighthouse \in DOMAIN lighthouses_
  /\ trackers_[msg.frame_id].ready
  /\ lighthouses_[msg.lighthouse].ready

\* C1: every call of TriggerCallback (from the service or from the timer)
\* ends in the state opposite to the one it was called in, whatever Solve
\* returned.
C1_TriggerFlips ==
  last.op \in TriggerOps => recording_ = ~last.rec

\* A trigger called while Recording whose Solve returned false ended in Idle.
C1_Witness ==
  /\ last.op = "TriggerCallback" /\ last.rec
  /\ last.solves = 1 /\ ~last.ret
  /\ ~recording_

\* C2: a step that leaves Recording has called Solve once, Solve has
\* processed the whole store as it was before the step and has returned
\* before measurements_.clear() is called, and the step ends with an empty
\* store.
C2_SolveThenClear ==
  [][(last'.op \in TriggerOps /\ recording_ /\ ~recording_') =>
       /\ last'.solves = 1
       /\ last'.processed = Cardinality(DOMAIN measurements_)
       /\ Precedes("Solve", "measurements_.clear", last'.trace)
       /\ measurements_' = EmptyMap]_vars

\* The timeout left Recording: Solve processed a non-empty store, which is
\* empty afterwards.
C2_Witness ==
  /\ last.op = "TimerCallback" /\ last.rec /\ ~recording_
  /\ last.processed > 0
  /\ measurements_ = EmptyMap

\* C3: a step calls Solve exactly once if it takes the state from Recording
\* to Idle, and not at all otherwise (Idle to Recording, or any callback that
\* leaves the state as it is).
C3_SolveOncePerSession ==
  [][last'.solves = (IF recording_ /\ ~recording_' THEN 1 ELSE 0)]_vars

\* A trigger ended a recording session that had stored observations, with
\* one call of Solve.
C3_Witness ==
  /\ last.op = "TriggerCallback" /\ last.rec /\ ~recording_
  /\ last.solves = 1 /\ last.ret

\* C4: LightCallback changes the store only if, on arrival, the state is
\* Recording and the tracker and the lighthouse of the observation are in the
\* rosters and ready.
C4_LightGate ==
  [][(last'.op = "LightCallback" /\ measurements_' # measurements_) =>
       (recording_ /\ KnownAndReady(last'.msg))]_vars

\* An observation of the slave lighthouse has been stored.
C4_Witness ==
  /\ last.op = "LightCallback" /\ last.rec
  /\ last.msg.lighthouse # Master(lighthouses_)
  /\ KnownAndReady(last.msg)
  /\ now \in DOMAIN measurements_
  /\ measurements_[now].lighthouse = last.msg.lighthouse

\* C5: for an observation that arrives while Recording from a ready tracker
\* and lighthouse: a pulse whose angle equals the threshold is not removed by
\* the filter; with exactly thresh_count_ - 1 pulses within the thresholds
\* the store is left unchanged; with exactly thresh_count_ such pulses the
\* observation is stored with exactly these pulses.
C5_InclusiveThresholds ==
  [][(last'.op = "LightCallback" /\ recording_ /\ KnownAndReady(last'.msg)) =>
       LET kept == Survivors(last'.msg.pulses) IN
       /\ Len(kept) = thresh_count_ - 1 => measurements_' = measurements_
       /\ Len(kept) = thresh_count_ =>
            /\ now \in DOMAIN measurements_'
            /\ measurements_'[now].pulses = kept
            /\ \A i \in 1..Len(last'.msg.pulses) :
                 LET p == last'.msg.pulses[i] IN
                 (p.angle = thresh_angle_ /\ p.duration >= thresh_duration_)
                   => \E k \in 1..Len(kept) : measurements_'[now].pulses[k] = p
     ]_vars

\* An observation with exactly thresh_count_ pulses, one of them with its
\* angle at the threshold, has been stored whole.
C5_Witness ==
  /\ last.op = "LightCallback" /\ last.rec /\ KnownAndReady(last.msg)
  /\ last.msg.pulses = P_edge
  /\ now \in DOMAIN measurements_
  /\ measurements_[now].pulses = P_edge

\* C6: when a step leaves Recording, Solve's return value and the success
\* flag of the response are true exactly when the global solver reported a
\* usable solution.
C6_SuccessIffUsable ==
  last.solves = 1 =>
    /\ last.ret = (last.solver = "usable")
    /\ last.res.success = (last.solver = "usable")

\* C7: when the global solver reports an unusable solution, every component
\* of every lighthouse transform is after Solve what it was before Solve.
C7_NoPartialOverwrite ==
  [][last'.solver = "unusable" =>
       \A l \in DOMAIN lighthouses_ :
         lighthouses_'[l].vTl = lighthouses_[l].vTl]_vars

\* C8: Solve called with an empty store returns false and has no effect: the
\* lighthouse transforms and the trackers' pose data are as before, and the
\* step calls nothing but Solve, measurements_.clear() and the toggle
\* (no SendTransforms, no WriteConfig).
C8_EmptySolveNoEffect ==
  [][(last'.solves = 1 /\ DOMAIN measurements_ = {}) =>
       /\ ~last'.ret
       /\ lighthouses_' = lighthouses_
       /\ trackers_' = trackers_
       /\ last'.trace = <<"Solve", "measurements_.clear", "toggle">>]_vars

\* Solve has been called with an empty store while the master's loaded
\* transform was not the identity, and the transform is still as loaded.
C8_Witness ==
  /\ last.solves = 1 /\ last.processed = 0 /\ ~last.ret
  /\ lighthouses_[Master(lighthouses_)].vTl \in MasterLoaded \ {Zero6}

\* C9: the message of the response on leaving Recording tells the three
\* outcomes apart: had the same call met another outcome (the store empty or
\* not, the solver's solution usable or not), its message would have been
\* a different one.
C9_MessagesDistinguish ==
  [][last'.solves = 1 =>
       \A meas \in {measurements_, EmptyMap}, usable \in BOOLEAN :
         LET alt == StopRecording(meas, trackers_, lighthouses_, {}, usable,
                                  Zero6)
         IN alt.solver # last'.solver => alt.res.message # last'.res.message
     ]_vars

\* C10: the master's transform is the zero vector before every Solve and
\* after every Solve.
C10_MasterIdentity ==
  [][last'.solves = 1 =>
       /\ lighthouses_[Master(lighthouses_)].vTl = Zero6
       /\ lighthouses_'[Master(lighthouses_')].vTl = Zero6]_vars

----------------------------------------------------------------------------
(* Properties of Solve on a recorded session *)

\* A trigger has just run Solve on a non-empty store.
Solved == last.op \in TriggerOps /\ last.solves = 1 /\ last.processed > 0

\* The number of AddResidualBlock calls made for (slave, tracker, epoch) k.
BlockCount(blocks, k) == Cardinality({i \in DOMAIN blocks : blocks[i] = k})

\* The time bins that occur in the poses or in the residual blocks.
PipeBins(pipe) ==
  {q[2] : q \in pipe.poses} \cup {pipe.blocks[i][3] : i \in DOMAIN pipe.blocks}

\* C11: for every lighthouse, tracker and time bin, Solve adds exactly one
\* residual block when the lighthouse is a slave and the tracker has an
\* EpochPose at that bin in the master frame and in the slave frame, and
\* none otherwise; no residual block has the master's transform as its free
\* parameter.
C11_OneBlockPerPair ==
  Solved =>
    LET pipe == last.pipe
        lm == Master(lighthouses_)
    IN /\ \A l \in DOMAIN lighthouses_, t \in DOMAIN trackers_,
             b \in PipeBins(pipe) :
            BlockCount(pipe.blocks, <<l, t, b>>) =
              IF l # lm /\ <<t, b, lm>> \in pipe.poses
                        /\ <<t, b, l>> \in pipe.poses
              THEN 1 ELSE 0
       /\ \A i \in DOMAIN pipe.blocks :
            /\ pipe.blocks[i][1] \in DOMAIN lighthouses_ \ {lm}
            /\ pipe.blocks[i][2] \in DOMAIN trackers_

\* A Solve that added a residual block for a bin where master and slave both
\* have a pose.
C11_Witness ==
  /\ Solved
  /\ \E i \in DOMAIN last.pipe.blocks :
       LET k == last.pipe.blocks[i] IN
       /\ <<k[2], k[3], k[1]>> \in last.pipe.poses
       /\ <<k[2], k[3], Master(lighthouses_)>> \in last.pipe.poses

\* The sensors with at least one sample on both axes in the bundle, for
\* tracker t, lighthouse l and time bin b.
BothAxes(bundle, t, l, b) ==
  {s \in 0..(NUM_SENSORS - 1) :
     \A a \in {0, 1} : /\ <<t, l, b, s, a>> \in DOMAIN bundle
                        /\ bundle[<<t, l, b, s, a>>] # <<>>}

\* The (tracker, lighthouse, time bin) triples that have a bundle entry.
BundleTriples(bundle) == {<<k[1], k[2], k[3]>> : k \in DOMAIN bundle}

\* C12: Solve produces an EpochPose for (tracker, lighthouse, time bin) only
\* if at least 4 sensors have samples, hence a mean angle, for axis 0 and for
\* axis 1 in that bin; with exactly 3 such sensors there is no EpochPose.
C12_FourCorrespondences ==
  Solved =>
    /\ \A q \in last.pipe.poses :
         Cardinality(BothAxes(last.pipe.bundle, q[1], q[3], q[2])) >= 4
    /\ \A k \in BundleTriples(last.pipe.bundle) :
         Cardinality(BothAxes(last.pipe.bundle, k[1], k[2], k[3])) = 3
           => <<k[1], k[3], k[2]>> \notin last.pipe.poses

\* A Solve that produced an EpochPose for one lighthouse while another
\* lighthouse had exactly 3 sensors with both means in a bin.
C12_Witness ==
  /\ Solved
  /\ last.pipe.poses # {}
  /\ \E k \in BundleTriples(last.pipe.bundle) :
       Cardinality(BothAxes(last.pipe.bundle, k[1], k[2], k[3])) = 3

\* The pulses of a store, each identified by the stamp of its measurement
\* and its position in the pulse list.
Hits(meas) ==
  UNION {{<<t, i>> : i \in DOMAIN meas[t].pulses} : t \in DOMAIN meas}

\* The bundle key that the pulse h of the store falls under.
KeyOf(meas, h) ==
  <<meas[h[1]].frame_id, meas[h[1]].lighthouse, Bin(h[1]),
    meas[h[1]].pulses[h[2]].sensor, meas[h[1]].axis>>

\* The sum of the angles of a set of pulses, taken in no particular order.
RECURSIVE AngleSum(_, _)
AngleSum(meas, H) ==
  IF H = {} THEN 0
  ELSE LET h == CHOOSE x \in H : TRUE IN
       meas[h[1]].pulses[h[2]].angle + AngleSum(meas, H \ {h})

\* The bundle that Solve has built from the store meas has samples under
\* exactly the keys of the pulses of meas, and the mean under each key is the
\* mean of the multiset of the angles of the pulses that fall under it.
MultisetBundle(meas, bundle) ==
  /\ {k \in DOMAIN bundle : bundle[k] # <<>>}
       = {KeyOf(meas, h) : h \in Hits(meas)}
  /\ \A k \in {KeyOf(meas, h) : h \in Hits(meas)} :
       LET H == {h \in Hits(meas) : KeyOf(meas, h) = k}
           m == Mean(bundle[k])
       IN m.ok /\ m.num = AngleSum(meas, H) /\ m.den = Cardinality(H)

\* C13: the populated keys of the bundle and the mean angle under each key
\* depend only on the multiset of the stored observations (stamp, tracker,
\* lighthouse, axis, pulses), not on the order in which Solve walks them.
C13_OrderIndependent ==
  [][(last'.op \in TriggerOps /\ last'.solves = 1 /\ DOMAIN measurements_ # {})
       => MultisetBundle(measurements_, last'.pipe.bundle)]_vars

\* Solve has bundled two samples with different angles under one key.
C13_Witness ==
  /\ Solved
  /\ \E k \in DOMAIN last.pipe.bundle :
       /\ Len(last.pipe.bundle[k]) > 1
       /\ last.pipe.bundle[k][1] # last.pipe.bundle[k][2]

\* C14: every entry that exists in the bundle of a Solve holds at least one
\* sample; neither the bundling loop nor the lookups of the bootstrapper
\* create an entry with no samples.
C14_NoEmptyEntry ==
  Solved => \A k \in DOMAIN last.pipe.bundle : last.pipe.bundle[k] # <<>>

\* Every epoch of the bundle has fewer than 4 sensors with both means.
FewEverywhere(bundle) ==
  \A k \in BundleTriples(bundle) :
    Cardinality(BothAxes(bundle, k[1], k[2], k[3])) < 4

\* C18: when every epoch of a non-empty store has fewer than 4 valid sensor
\* correspondences, Solve produces no EpochPose, adds no residual block, and
\* reports failure: it returns false and the response says that no solution
\* was found.
C18_NoPoseReportsFailure ==
  (Solved /\ FewEverywhere(last.pipe.bundle)) =>
    /\ last.pipe.poses = {}
    /\ last.pipe.blocks = <<>>
    /\ ~last.ret
    /\ ~last.res.success

----------------------------------------------------------------------------
(* Properties of the timer and of the store *)

\* C16: in offline mode the only change of state that ever occurs is the
\* one from Recording to Idle made by the timeout; the state never goes back
\* to Recording.
C16_OfflineSingleTransition ==
  [][(offline_ /\ recording_' # recording_)
       => (recording_ /\ ~recording_' /\ last'.op = "TimerCallback")]_vars

\* LightCallback accepts msg into the store in the current state.
Accepted(msg) ==
  /\ recording_
  /\ KnownAndReady(msg)
  /\ Len(Survivors(msg.pulses)) >= thresh_count_

\* C17: an accepted observation arms the timer for a full period; the timer
\* fires only when it is armed and a full period has passed, in which no
\* observation was accepted (every stored stamp is at least one period old);
\* a firing leaves the timer stopped, so one arming fires at most once; and
\* the time left on the timer goes down only as time passes.
C17_TimeoutAfterSilence ==
  [][/\ (last'.op = "LightCallback" /\ Accepted(last'.msg))
         => (timer_'.started /\ timer_'.remaining = TimerPeriod)
     /\ last'.op = "TimerCallback"
         => /\ timer_.started /\ timer_.remaining = 0
            /\ ~timer_'.started
            /\ \A t \in DOMAIN measurements_ : now - t >= TimerPeriod
     /\ timer_'.remaining < timer_.remaining
         => (now' = now + 1 /\ timer_'.remaining = timer_.remaining - 1)
    ]_vars

\* The timer has fired on a session that holds accepted observations.
C17_Witness ==
  /\ last.op = "TimerCallback"
  /\ last.rec
  /\ last.processed > 0
  /\ ~timer_.started

\* C20: within a recording session the store is append-only: an accepted
\* observation adds one new entry and leaves every earlier entry as it was.
C20_AppendOnly ==
  [][(last'.op = "LightCallback" /\ Accepted(last'.msg))
       => /\ Cardinality(DOMAIN measurements_')
               = Cardinality(DOMAIN measurements_) + 1
          /\ \A t \in DOMAIN measurements_ :
               /\ t \in DOMAIN measurements_'
               /\ measurements_'[t] = measurements_[t]]_vars

----------------------------------------------------------------------------
(* Properties of TriggerCallback, statement by statement *)

\* Solve has started, and the store has not been cleared yet.
InSolve == pc \in {"solve", "clear"}

\* The step handles no light observation and leaves every stored
\* measurement as it is, or clears the store.
NoAppend ==
  /\ last'.op # "LightCallback"
  /\ \/ measurements_' = measurements_
     \/ pc = "clear" /\ measurements_' = EmptyMap

\* The step does not enter TriggerCallback.
NoSecondSolve == last'.op \notin TriggerOps

\* C15: from the moment Solve starts until the store has been cleared, the
\* state is no longer Recording (ingestion is gated off), no observation is
\* accepted into the store, and no trigger or timeout starts a second Solve.
C15_GatedDuringSolve ==
  [][InSolve => (~recording_ /\ NoAppend /\ NoSecondSolve)]_vars

\* C15, amended: from the moment Solve starts until the store has been
\* cleared, no callback is dispatched: no observation is handled and no
\* trigger or timeout enters TriggerCallback.  The state is still Recording
\* all the while.
C15_SolveSerialized ==
  [][InSolve => (recording_ /\ NoAppend /\ NoSecondSolve)]_vars

\* Solve has returned on a non-empty store that is not cleared yet, and the
\* state is Recording.
C15_Witness ==
  /\ pc = "clear"
  /\ recording_
  /\ DOMAIN measurements_ # {}
  /\ last.solves = 1

----------------------------------------------------------------------------
(* Properties of main() *)

\* Every required parameter is set and every pose vector has 7 components.
Complete(cfg) ==
  /\ cfg.offline # "missing"
  /\ cfg.scalars
  /\ \A l \in LighthouseSerials : cfg.lighthouses[l] = TransformLen
  /\ \A t \in TrackerSerials : cfg.trackers[t] = TransformLen

\* C19: main() reaches callback dispatch (ros::spin) only when the
\* configuration is complete; a configuration error stops the node before.
C19_FatalConfigError ==
  [][(pc = "main" /\ pc' = "spin") => Complete(last.msg)]_vars

----------------------------------------------------------------------------
(* Properties of TransformCost *)

\* C21: when the master-frame pose is the rigid composition of the slave
\* transform with the slave-frame pose, all six components of the residual
\* are zero.
C21_ZeroResidual ==
  (cost.residual # <<>> /\ cost.mTt = Composed(cost.mTs, cost.sTt))
    => cost.residual = Zero6

----------------------------------------------------------------------------
(* Properties of the erase loop *)

\* The list in reverse order.
Reversed(seq) == [i \in 1..Len(seq) |-> seq[Len(seq) + 1 - i]]

\* C22: for an observation that arrives while Recording from a ready tracker
\* and lighthouse, the erase loop examines the pulses one by one from the
\* last to the first, each exactly once; what is stored (when at least
\* thresh_count_ pulses remain) is the list of the input pulses with
\* angle <= thresh_angle_ and duration >= thresh_duration_, each once and in
\* their original order, and otherwise the store is unchanged.
C22_FilterExact ==
  [][(last'.op = "LightCallback" /\ recording_ /\ KnownAndReady(last'.msg)) =>
       LET in == last'.msg.pulses
           kept == Survivors(in) IN
       /\ Visits(in, Len(in)) = Reversed(in)
       /\ Filter(in) = kept
       /\ IF Len(kept) >= thresh_count_
          THEN /\ now \in DOMAIN measurements_'
               /\ measurements_'[now].pulses = kept
          ELSE measurements_' = measurements_
     ]_vars

\* An observation whose last two pulses are both rejected, one for its
\* angle and one for its duration, has been stored with its four other
\* pulses.
C22_Witness ==
  /\ last.op = "LightCallback" /\ last.rec /\ KnownAndReady(last.msg)
  /\ Len(last.msg.pulses) > thresh_count_
  /\ Reject(last.msg.pulses[Len(last.msg.pulses)])
  /\ \E i \in 1..(Len(last.msg.pulses) - 1) :
       Reject(last.msg.pulses[i]) /\ Reject(last.msg.pulses[i + 1])
  /\ now \in DOMAIN measurements_
  /\ Len(measurements_[now].pulses) = thresh_count_

----------------------------------------------------------------------------
(* Properties of the recording state, the timeout and the timer *)

\* C23: between two callbacks, whenever the node is Idle the measurement
\* store is empty, whatever observations and triggers have been handled.
C23_IdleStoreEmpty ==
  (pc = "spin" /\ ~recording_) => measurements_ = EmptyMap

\* An observation that would have been stored while Recording has arrived
\* while Idle, and the store is empty.
C23_Witness ==
  /\ last.op = "LightCallback" /\ ~last.rec /\ ~recording_
  /\ KnownAndReady(last.msg)
  /\ Len(Survivors(last.msg.pulses)) >= thresh_count_
  /\ measurements_ = EmptyMap

\* C24: a firing of the timer does what a call of the trigger service does
\* in the same state: in Idle it starts a recording without calling Solve
\* and leaves store, trackers and lighthouses as they are; in Recording it
\* calls Solve once on the whole store, clears the store and goes to Idle.
\* The response is that of the trigger service.
C24_TimeoutIsTrigger ==
  [][last'.op = "TimerCallback" =>
       /\ last'.rec = recording_
       /\ \E pnp \in SUBSET PnPCandidates(measurements_, trackers_,
                                           lighthouses_),
             usable \in BOOLEAN, solved \in SolvedTransforms :
            LET c == TriggerCallback(recording_, measurements_, trackers_,
                                     lighthouses_, pnp, usable, solved) IN
            /\ c.res = last'.res
            /\ c.trackers = trackers_' /\ c.lighthouses = lighthouses_'
       /\ IF ~recording_
          THEN /\ recording_' /\ last'.solves = 0
               /\ last'.res.message = "Recording started."
               /\ measurements_' = measurements_
               /\ trackers_' = trackers_ /\ lighthouses_' = lighthouses_
          ELSE /\ ~recording_' /\ last'.solves = 1
               /\ last'.processed = Cardinality(DOMAIN measurements_)
               /\ measurements_' = EmptyMap
     ]_vars

\* The timer has fired while Idle and the node is now Recording.
C24_Witness ==
  /\ last.op = "TimerCallback" /\ ~last.rec
  /\ recording_ /\ last.solves = 0

\* C25: every call of LightCallback leaves the timer armed for a full
\* period, whether the node is Idle or Recording, online or offline, and
\* whether the observation is stored or not.
C25_AlwaysRestarts ==
  [][last'.op = "LightCallback" =>
       (timer_'.started /\ timer_'.remaining = TimerPeriod)]_vars

\* An observation of an unknown tracker has arrived while Idle with the
\* timer not running, and the timer is armed.
C25_Witness ==
  /\ last.op = "LightCallback" /\ ~last.rec
  /\ last.msg.frame_id \notin DOMAIN trackers_
  /\ measurements_ = EmptyMap
  /\ timer_.started /\ timer_.remaining = TimerPeriod

----------------------------------------------------------------------------
(* Properties of the OOTX decoder *)

\* A bit is about to be fed to the context of a lighthouse id in range.
Feeding == wire.bits # <<>> /\ wire.lh < MAX_NUM_LIGHTHOUSES

\* The least element of a non-empty set of slot indices.
Lowest(S) == CHOOSE i \in S : \A j \in S : i <= j

\* C26: a 1 bit that arrives after at least PREAMBLE_LENGTH consecutive 0
\* bits takes the decoder to LENGTH with length, pos, syn and preamble 0,
\* whatever its state, and leaves data as it is; any other 1 bit sets the
\* zero-run counter to 0 and does not restart the decoder.
C26_PreambleInEveryState ==
  [][(Feeding /\ Head(wire.bits) = 1) =>
       LET before == ootx[wire.lh]
           after == ootx'[wire.lh]
       IN IF fed.zeros >= PREAMBLE_LENGTH
          THEN /\ after.state = "LENGTH"
               /\ after.length = 0 /\ after.pos = 0 /\ after.syn = 0
               /\ after.preamble = 0
               /\ after.data = before.data
          ELSE /\ after.preamble = 0
               /\ after.state = "LENGTH" => before.state = "LENGTH"
     ]_vars

\* C27: while the decoder is in PAYLOAD, a bit is written to data[pos] only
\* for pos < length + pad <= MAX_PACKET_LEN; the decoder goes to CHECKSUM
\* when exactly length + pad bytes have been written and writes no further
\* bit after them.
C27_PayloadInBounds ==
  [][(Feeding /\ ootx[wire.lh].state = "PAYLOAD") =>
       LET before == ootx[wire.lh]
           after == ootx'[wire.lh]
           size == before.length + before.pad
       IN /\ fed'.wrote # -1 =>
               /\ fed'.wrote < size
               /\ size <= MAX_PACKET_LEN
               /\ fed.written < 8 * size
          /\ after.state = "CHECKSUM" => fed.written = 8 * size
     ]_vars

\* C28: decode_packet is called only by the call of ootx_feed that completes
\* the 4th byte of CHECKSUM, and only if the CRC-32 of the first `length`
\* bytes of data equals the byte-swapped received checksum; that call
\* leaves the decoder in PREAMBLE with pos, syn, preamble and length 0,
\* whether the checksums are equal or not.
C28_DecodeOnValidChecksum ==
  [][Feeding =>
       LET before == ootx[wire.lh]
           after == ootx'[wire.lh]
           restart == Head(wire.bits) = 1
                        /\ before.preamble >= PREAMBLE_LENGTH
           complete == /\ before.state = "CHECKSUM" /\ ~restart
                       /\ before.syn = 16 /\ before.pos = 3
       IN /\ pkt'.called =>
               /\ complete
               /\ crc32(U32(0, 0), before.data, before.length)
                    = swapl(before.crc)
               /\ pkt'.id = wire.lh /\ pkt'.tc = wire.tc
          /\ complete =>
               /\ after.state = "PREAMBLE"
               /\ after.pos = 0 /\ after.syn = 0
               /\ after.preamble = 0 /\ after.length = 0
     ]_vars

\* A frame of odd length has been decoded: the checksum of its first five
\* bytes was received, and the decoder is back in PREAMBLE.
C28_Witness ==
  /\ pkt.called /\ fed.check = "match"
  /\ wire.lh < MAX_NUM_LIGHTHOUSES
  /\ ootx[wire.lh].pad = 1
  /\ ootx[wire.lh].data[5] # 0
  /\ ootx[wire.lh].state = "PREAMBLE"

\* C29: a packet is stored in the slot that holds its serial; if there is
\* none, in the lowest slot with timestamp 0, which tracker->ootx[id] then
\* refers to; if there is none either, no slot changes,
\* tracker->ootx[id].lighthouse stays as it is and the callback is not
\* invoked.
C29_SlotChoice ==
  [][pkt'.called =>
       LET slots == 0..(MAX_NUM_LIGHTHOUSES - 1)
           match == {i \in slots : lighthouses[i].serial = pkt'.serial}
           free == {i \in slots : lighthouses[i].timestamp = 0}
           Stored(i) ==
             /\ lighthouses'[i].serial = pkt'.serial
             /\ lighthouses'[i].timestamp = pkt'.tc
             /\ \A j \in slots \ {i} : lighthouses'[j] = lighthouses[j]
             /\ ootx'[pkt'.id].lighthouse = i
             /\ pkt'.callback
       IN IF match # {} THEN Stored(Lowest(match))
          ELSE IF free # {} THEN Stored(Lowest(free))
          ELSE /\ lighthouses' = lighthouses
               /\ ootx'[pkt'.id].lighthouse = ootx[pkt'.id].lighthouse
               /\ ~pkt'.callback
     ]_vars

\* A packet of a third lighthouse has been disregarded: both slots are held
\* by other serials with timestamps that are not 0.
C29_Witness ==
  /\ pkt.called /\ ~pkt.callback
  /\ \A i \in 0..(MAX_NUM_LIGHTHOUSES - 1) :
       /\ lighthouses[i].timestamp # 0
       /\ lighthouses[i].serial # pkt.serial

\* C30: a slot that holds a serial keeps it, whatever packets and timecodes
\* follow.
C30_SerialSticks ==
  [][\A i \in 0..(MAX_NUM_LIGHTHOUSES - 1) :
       lighthouses[i].serial # <<>> =>
         lighthouses'[i].serial = lighthouses[i].serial]_vars
----------------------------------------------------------------------------
(* Properties of the pulse handlers *)

\* The sweep buffer holds no sweep.
BufferEmpty(l) == Held(l) = {}

============================================================================
